---------------------------- MODULE Spec2Model ----------------------------
(***************************************************************************)
(* Gaze-to-cursor mapping and safety pipeline of EyeTracker.               *)
(*                                                                         *)
(* The module models, component by component,                              *)
(*   - FailsafeManager   (MonocularTracker/utils/failsafe_manager.py)      *)
(*   - the three Calibrator classes                                        *)
(*       "TC"  MonocularTracker/tracking/calibration.py                    *)
(*       "CC"  MonocularTracker/calibration/calibrator.py                  *)
(*       "EA"  MonocularEyeAssist/core/calibration.py                      *)
(*   - the tracking loop of App (MonocularTracker/app.py) with its         *)
(*     DriftCorrector and EmaSmoother, and its calibration session         *)
(*   - DriftCorrector    (MonocularTracker/ai/drift_corrector.py)          *)
(*   - TrendPredictor    (MonocularTracker/tracking/smoothing.py and       *)
(*                        MonocularEyeAssist/core/smoothing.py)            *)
(*   - the smoothers Smoother (MonocularTracker/utils/smoothing.py) and    *)
(*     ButterworthLowPass (MonocularTracker/tracking/smoothing.py)         *)
(*   - Pipeline.process  (MonocularTracker/tracking/pipeline.py)           *)
(*   - CalibrationUI     (MonocularTracker/ui/calibration_ui.py) and the   *)
(*     calibration session of AppCore (MonocularTracker/core/app.py)       *)
(* Each component has its own specification (SpecFailsafe, SpecCalib,      *)
(* SpecRobust, SpecApp, SpecSession, SpecDrift, SpecTrend, SpecStages,     *)
(* SpecPipeline, SpecCalibUI): all of them start from Init and leave the   *)
(* other components' variables alone.                                      *)
(*                                                                         *)
(* Conventions.  An absent value (Python None) is the empty tuple None.    *)
(* A point is a pair <<x, y>> of integers.  Time is an integer number of   *)
(* clock units read from time.monotonic(); `now` is the value the next     *)
(* read would return at the earliest.                                      *)
(***************************************************************************)
EXTENDS Integers, Sequences, FiniteSets, TLC

VARIABLES
    now,        \* time.monotonic(): the monotonic clock
    failsafe,   \* the FailsafeManager object: its five private fields
    fcall,      \* the last call made on the FailsafeManager, its inputs,
                \* the fields before it and the value it returned
    calib,      \* the Calibrator object held by the application
    file,       \* the calibration file on disk
    ccall,      \* the last call made on the Calibrator, its inputs, the
                \* object before it and the value it returned
    saved,      \* what the calibrator predicted when save() was last
                \* called on a trained calibrator; None once the file has
                \* been written by something else
    app,        \* the App object: flags, drift corrector, smoother, cursor
    tcall,      \* the last run of App._on_tick and what it did
    drift,      \* a DriftCorrector object; None before it is constructed
    dcall,      \* the last call made on the DriftCorrector and the object
                \* before it
    dlog,       \* the update() calls made since the DriftCorrector was
                \* constructed or reset, oldest first
    trend,      \* a TrendPredictor object; None before it is constructed
    pcall,      \* the last call made on the TrendPredictor
    stages,     \* a Smoother and a ButterworthLowPass object
    scall,      \* the last call made on one of the two smoothers
    pipe,       \* the Pipeline object of AppCore with its Mapping
    rcall,      \* the last Pipeline.process() call and its FrameResult
    ui,         \* AppCore's calibration state and its CalibrationUI objects
    ucall       \* the last step of a calibration session

vars == <<now, failsafe, fcall, calib, file, ccall, saved, app, tcall,
          drift, dcall, dlog, trend, pcall, stages, scall, pipe, rcall,
          ui, ucall>>

None == <<>>

(***************************************************************************)
(* Bounds of the model.                                                    *)
(***************************************************************************)
\* Screen width and height in pixels (pyautogui.size() at run time).
ScreenW == 20
ScreenH == 10
\* Resolution of the normalized gaze feature: nx, ny are k/FeatMax.
FeatMax == 2
\* The longest sample list of a calibrator.
MaxSamples == 13
\* The clock stops advancing here.
MaxClock == 6
\* FailsafeManager(max_frame_gap_s=..., autosleep_idle_s=...): the two time
\* thresholds, in clock units.
max_frame_gap_s == 1
autosleep_idle_s == 3

(***************************************************************************)
(* Program constants.                                                      *)
(***************************************************************************)
\* max_jump_ratio = 0.15 as the fraction 15/100
max_jump_ratio == <<15, 100>>
\* max_drift_pixels = 120.0
max_drift_pixels == 120

screen_size == <<ScreenW, ScreenH>>

Abs(i) == IF i < 0 THEN -i ELSE i
Max(a, b) == IF a >= b THEN a ELSE b
Min(a, b) == IF a <= b THEN a ELSE b

(***************************************************************************)
(* FailsafeManager                                                         *)
(***************************************************************************)

\* __init__: the fields of a manager constructed when the clock reads t.
FailsafeInit(t) ==
    [last_xy |-> None, last_time |-> t, frozen |-> FALSE, reason |-> "",
     last_move_time |-> t]

\* reset(): identical to construction at time t.
FailsafeReset(self, t) ==
    [self EXCEPT !.last_xy = None, !.frozen = FALSE, !.reason = "",
                 !.last_time = t, !.last_move_time = t]

\* `if dt > self.max_frame_gap_s`
LowFps(dt) == dt > max_frame_gap_s

\* `if not features_present or candidate_xy is None`
NoFeaturesMutant(features_present, candidate_xy) == candidate_xy = None
NoFeatures(features_present, candidate_xy) ==
    (~features_present) \/ candidate_xy = None

\* `drift_offset is not None and (ox*ox + oy*oy) ** 0.5 > self.max_drift_pixels`
\* (both sides are non-negative, so the squares are compared)
DriftExceededMutant(drift_offset) ==
    /\ drift_offset # None
    /\ Abs(drift_offset[1]) > max_drift_pixels
DriftExceeded(drift_offset) ==
    /\ drift_offset # None
    /\ drift_offset[1] * drift_offset[1] + drift_offset[2] * drift_offset[2]
          > max_drift_pixels * max_drift_pixels

\* Spike test: `(dx*dx + dy*dy) ** 0.5 > max_jump` with
\* max_jump = max(1, int(screen_size[0])) * max_jump_ratio.
IsSpikeMutant(candidate_xy, last, size) ==
    max_jump_ratio[2] * Abs(candidate_xy[1] - last[1])
        > Max(1, size[1]) * max_jump_ratio[1]
IsSpike(candidate_xy, last, size) ==
    LET w  == Max(1, size[1])
        dx == candidate_xy[1] - last[1]
        dy == candidate_xy[2] - last[2]
    IN  max_jump_ratio[2] * max_jump_ratio[2] * (dx * dx + dy * dy)
            > (w * max_jump_ratio[1]) * (w * max_jump_ratio[1])

\* Spike rejection: the candidate after `candidate_xy = self._last_xy`.
SpikeClampMutant(self, candidate_xy, size) == candidate_xy
SpikeClamp(self, candidate_xy, size) ==
    IF self.last_xy # None /\ IsSpike(candidate_xy, self.last_xy, size)
    THEN self.last_xy
    ELSE candidate_xy

\* `(now - self._last_move_time) > self.autosleep_idle_s`
IdleElapsedMutant(self, t) == FALSE
IdleElapsed(self, t) == (t - self.last_move_time) > autosleep_idle_s

Freeze(self, why) ==
    [st |-> [self EXCEPT !.frozen = TRUE, !.reason = why], ret |-> None]

\* `# All checks passed -> allow`: clear the freeze, remember and return xy.
AllowMutant(self, xy) == [st |-> [self EXCEPT !.last_xy = xy], ret |-> xy]
Allow(self, xy) ==
    [st  |-> [self EXCEPT !.frozen = FALSE, !.reason = "", !.last_xy = xy],
     ret |-> xy]

\* The three freezing early returns of process(), in the order of the code:
\* the reason of the first one that matches, "" when none does.
EarlyFreezeMutant(dt, features_present, candidate_xy, drift_offset) ==
    IF NoFeatures(features_present, candidate_xy) THEN "no-features"
    ELSE IF LowFps(dt) THEN "low-fps"
    ELSE IF DriftExceeded(drift_offset) THEN "drift-limit"
    ELSE ""
EarlyFreeze(dt, features_present, candidate_xy, drift_offset) ==
    IF LowFps(dt) THEN "low-fps"
    ELSE IF NoFeatures(features_present, candidate_xy) THEN "no-features"
    ELSE IF DriftExceeded(drift_offset) THEN "drift-limit"
    ELSE ""

\* process(candidate_xy, features_present=, screen_size=, drift_offset=) when
\* time.monotonic() returns t: the fields after the call and the value
\* returned.
process(self, t, candidate_xy, features_present, size, drift_offset) ==
    LET dt    == t - self.last_time
        s1    == [self EXCEPT !.last_time = t]
        early == EarlyFreeze(dt, features_present, candidate_xy, drift_offset)
    IN  IF early # "" THEN Freeze(s1, early)
        ELSE
          LET cand == SpikeClamp(self, candidate_xy, size)
          IN  IF self.last_xy # None /\ cand = self.last_xy
              THEN IF IdleElapsed(self, t)
                   THEN Freeze(s1, "autosleep")
                   ELSE Allow(s1, cand)
              ELSE Allow([s1 EXCEPT !.last_move_time = t], cand)

is_frozen(self) == self.frozen
reason(self) == self.reason

(***************************************************************************)
(* Regressors (scikit-learn, outside the repository)                       *)
(*                                                                         *)
(* A feature is a pair <<nx, ny>> of integers in 0..FeatMax standing for   *)
(* the normalized coordinates nx/FeatMax, ny/FeatMax in [0, 1].  A fitted  *)
(* estimator for one axis is an affine function of that axis's feature     *)
(* whose value is a number of half pixels (so that rounding and            *)
(* truncation are visible).  An estimator object is the record of its      *)
(* attributes plus its class; `fitted` stands for the attributes fit()     *)
(* sets on an MLPRegressor or a Ridge, `steps` for the fitted steps of a   *)
(* Pipeline.  What fit() returns for given samples is not modelled: it is  *)
(* any member of Fits.                                                     *)
(***************************************************************************)
\* Python's round(): to the nearest integer, ties to the even one.
PyRound(h) ==
    IF h % 2 = 0 THEN h \div 2
    ELSE LET lo == (h - 1) \div 2 IN IF lo % 2 = 0 THEN lo ELSE lo + 1

\* Python's int(): truncation towards zero.
PyInt(h) == IF h >= 0 THEN h \div 2 ELSE -((-h) \div 2)

\* A fitted StandardScaler.
StandardScaler == [kind |-> "StandardScaler"]

\* An MLPRegressor as constructed (not fitted), and fitted.
Unfitted == [class |-> "MLPRegressor", fitted |-> FALSE]
Estimator(i, s) ==
    [class |-> "MLPRegressor", fitted |-> TRUE, icpt |-> i, slope |-> s]
\* A fitted Ridge.
Ridge(i, s) == [class |-> "Ridge", fitted |-> TRUE, icpt |-> i, slope |-> s]
\* A fitted Pipeline(PolynomialFeatures, StandardScaler, Ridge): its steps
\* attribute holds the fitted step objects.
PolyPipeline(i, s) ==
    [class |-> "Pipeline", steps |-> [icpt |-> i, slope |-> s]]

\* predict() works: check_is_fitted passes.
IsFitted(est) == IF est.class = "Pipeline" THEN TRUE ELSE est.fitted

\* estimator.predict(X)[0] of a fitted estimator, in half pixels: slope is
\* the change of the output over the whole feature range.
EstPredict(est, f) ==
    LET c == IF est.class = "Pipeline" THEN est.steps ELSE est
    IN  c.icpt + (c.slope * f) \div FeatMax

\* estimator.__getstate__(): the attributes of the object.
GetState(est) == [k \in (DOMAIN est) \ {"class"} |-> est[k]]
\* json.dump accepts the state: the steps of a Pipeline are estimator
\* objects, which it rejects; the state of a fitted MLPRegressor holds
\* what the library put there (mlp_json: whether json.dump accepts it); the
\* state of an estimator as constructed holds plain parameters.
JsonSerializable(est, mlp_json) ==
    IF est.class = "Pipeline" THEN FALSE
    ELSE IF est.fitted THEN mlp_json ELSE TRUE
\* estimator.__setstate__(state) on a fresh object: the attributes in the
\* state replace the object's, the others stay as constructed.
SetState(est, state) ==
    [k \in (DOMAIN est) \cup (DOMAIN state) |->
        IF k \in DOMAIN state THEN state[k] ELSE est[k]]

\* The outcomes of fitting the two axes: a fit that maps the feature range
\* onto the screen, and one that overshoots it on both sides.  Each carries
\* its training residual (rmse).
FitGood ==
    [mx |-> Estimator(0, 2 * (ScreenW - 1)),
     my |-> Estimator(0, 2 * (ScreenH - 1)), rmse |-> 1]
FitOver ==
    [mx |-> Estimator(-3, 2 * ScreenW + 4),
     my |-> Estimator(-3, 2 * ScreenH + 4), rmse |-> 2]
Fits == {FitGood, FitOver}

\* The value of a call: returned normally, or an exception raised.
Return(v) == [raised |-> FALSE, val |-> v]
Raise == [raised |-> TRUE]

\* dict.get(k, default)
Get(d, k, default) == IF k \in DOMAIN d THEN d[k] ELSE default

AllTrue(n) == [i \in 1 .. n |-> TRUE]
CountTrue(mask) == Cardinality({i \in DOMAIN mask : mask[i]})

(***************************************************************************)
(* Calibrator "TC": MonocularTracker/tracking/calibration.py               *)
(***************************************************************************)
TC_min_keep_count == 30
TC_robust_min_samples == 40

\* __init__(method="auto")
TC_New(method) ==
    [cls |-> "TC", method |-> method, samples |-> <<>>, mx |-> None,
     my |-> None, scaler |-> None, is_trained |-> FALSE,
     last_inlier_mask |-> None, robust_enabled |-> TRUE,
     robust_drop_percent |-> 15]

TC_reset(self) ==
    [self EXCEPT !.samples = <<>>, !.mx = None, !.my = None, !.scaler = None,
                 !.is_trained = FALSE, !.last_inlier_mask = None]

\* configure_robust(enabled, drop_percent)
TC_configure_robust(self, enabled, drop_percent) ==
    [self EXCEPT !.robust_enabled = enabled,
                 !.robust_drop_percent = Max(0, Min(49, drop_percent))]

TC_add(self, f, xy) == [self EXCEPT !.samples = Append(@, <<f, xy>>)]

\* _train_mlp: (mx, my, scaler, rmse), the scaler fitted.
TC_train_mlp(fit) ==
    [mx |-> fit.mx, my |-> fit.my, scaler |-> StandardScaler,
     rmse |-> fit.rmse]
\* _train_poly2: (pipe_x, pipe_y, None, rmse).
TC_train_poly2(fit) ==
    [mx |-> PolyPipeline(fit.mx.icpt, fit.mx.slope),
     my |-> PolyPipeline(fit.my.icpt, fit.my.slope),
     scaler |-> None, rmse |-> fit.rmse]

\* The robust pass of train(): the keep mask for residuals errs (integers),
\* `base_errs <= np.quantile(base_errs, quant)` with the threshold relaxed
\* by 5% once when fewer than min_keep samples stay.
TC_quantile_keep(errs, quant100) ==
    LET n   == Len(errs)
        pos == (n - 1) * quant100            \* position, in hundredths
        lo  == pos \div 100
        r   == pos % 100
        \* the k-th smallest residual, k from 0
        Kth(k) == CHOOSE v \in {errs[i] : i \in 1 .. n} :
                     /\ Cardinality({i \in 1 .. n : errs[i] < v}) <= k
                     /\ Cardinality({i \in 1 .. n : errs[i] <= v}) > k
        hi  == IF lo + 1 <= n - 1 THEN lo + 1 ELSE lo
        \* 100 * q by linear interpolation between the two neighbours
        q100 == 100 * Kth(lo) + r * (Kth(hi) - Kth(lo))
    IN  [i \in 1 .. n |-> 100 * errs[i] <= q100]

TC_robust_mask(self, errs) ==
    LET n == Len(self.samples)
    IN  IF self.robust_enabled /\ n >= TC_robust_min_samples
           /\ self.robust_drop_percent > 0
        THEN LET quant100 == 100 - self.robust_drop_percent
                 m1       == TC_quantile_keep(errs, quant100)
                 \* max(int(0.7 * n), min_keep_count)
                 min_keep == Max((7 * n) \div 10, TC_min_keep_count)
             IN  IF CountTrue(m1) < min_keep
                 THEN TC_quantile_keep(errs, Min(98, quant100 + 5))
                 ELSE m1
        ELSE AllTrue(n)

\* train(): fa and fb are what fitting the MLP and the polynomial return on
\* all samples, ra and rb what they return on the inliers, errs the
\* residuals of the chosen first fit.
TC_train(self, fa, fb, ra, rb, errs) ==
    IF Len(self.samples) = 0 THEN self
    ELSE
      LET none   == [mx |-> None, my |-> None, scaler |-> None]
          a      == IF self.method \in {"mlp", "auto"} THEN TC_train_mlp(fa)
                    ELSE none
          b      == IF self.method \in {"poly2", "auto"} THEN TC_train_poly2(fb)
                    ELSE none
          \* rmse_b < rmse_a, the rmse of a candidate not trained being inf
          b_wins == \/ self.method = "poly2"
                    \/ self.method = "auto" /\ b.rmse < a.rmse
          first  == IF b_wins THEN b ELSE a
          chosen == IF b_wins THEN "poly2" ELSE "mlp"
          mask   == TC_robust_mask(self, errs)
          again  == IF CountTrue(mask) < Len(self.samples)
                    THEN IF chosen = "mlp" THEN TC_train_mlp(ra)
                         ELSE TC_train_poly2(rb)
                    ELSE first
      IN  [self EXCEPT !.mx = again.mx, !.my = again.my,
                       !.scaler = again.scaler, !.method = chosen,
                       !.last_inlier_mask = mask, !.is_trained = TRUE]

\* predict(f): (int(round(px)), int(round(py))); (0, 0) when untrained; the
\* estimator's NotFittedError when an estimator is not fitted.
TC_predict(self, f) ==
    IF ~self.is_trained \/ self.mx = None \/ self.my = None
    THEN Return(<<0, 0>>)
    ELSE IF ~IsFitted(self.mx) \/ ~IsFitted(self.my) THEN Raise
    ELSE Return(<<PyRound(EstPredict(self.mx, f[1])),
                  PyRound(EstPredict(self.my, f[2]))>>)

\* save(path) with the file being f: what the call returns and the file
\* after it.  An untrained calibrator raises before the file is opened;
\* otherwise the file is opened for writing and json.dump either writes the
\* whole document or raises on a value it rejects, leaving a truncated file.
TC_save(self, f, mlp_json) ==
    IF ~self.is_trained \/ self.mx = None \/ self.my = None
    THEN [ret |-> Raise, file |-> f]
    ELSE IF JsonSerializable(self.mx, mlp_json)
            /\ JsonSerializable(self.my, mlp_json)
    THEN [ret |-> Return(None),
          file |-> [kind |-> "json",
                    data |-> [method |-> self.method,
                              mx_state |-> GetState(self.mx),
                              my_state |-> GetState(self.my),
                              scaler_state |->
                                  IF self.scaler # None
                                  THEN GetState(self.scaler) ELSE None]]]
    ELSE [ret |-> Raise, file |-> [kind |-> "corrupt"]]

\* load(path): a new instance restored from the file, or an exception.
TC_load(f) ==
    IF f.kind # "json" THEN Raise
    ELSE LET data == f.data
             inst == TC_New(Get(data, "method", "mlp"))
         IN  Return([inst EXCEPT
                 !.mx = SetState(Unfitted, Get(data, "mx_state", <<>>)),
                 !.my = SetState(Unfitted, Get(data, "my_state", <<>>)),
                 !.scaler = IF Get(data, "scaler_state", None) # None
                            THEN StandardScaler ELSE None,
                 !.is_trained = TRUE])

(***************************************************************************)
(* Calibrator "CC": MonocularTracker/calibration/calibrator.py             *)
(***************************************************************************)
CC_New ==
    [cls |-> "CC", samples |-> <<>>, mx |-> None, my |-> None,
     is_trained |-> FALSE]

CC_reset(self) ==
    [self EXCEPT !.samples = <<>>, !.is_trained = FALSE, !.mx = None,
                 !.my = None]

CC_add_sample(self, f, xy) == [self EXCEPT !.samples = Append(@, <<f, xy>>)]

CC_train(self, fit) ==
    IF Len(self.samples) = 0 THEN self
    ELSE [self EXCEPT !.mx = fit.mx, !.my = fit.my, !.is_trained = TRUE]

CC_predict(self, f) ==
    IF ~self.is_trained \/ self.mx = None \/ self.my = None
    THEN Return(<<0, 0>>)
    ELSE IF ~IsFitted(self.mx) \/ ~IsFitted(self.my) THEN Raise
    ELSE Return(<<PyRound(EstPredict(self.mx, f[1])),
                  PyRound(EstPredict(self.my, f[2]))>>)

CC_save(self, f, mlp_json) ==
    IF ~self.is_trained \/ self.mx = None \/ self.my = None
    THEN [ret |-> Raise, file |-> f]
    ELSE IF JsonSerializable(self.mx, mlp_json)
            /\ JsonSerializable(self.my, mlp_json)
    THEN [ret |-> Return(None),
          file |-> [kind |-> "json",
                    data |-> [version |-> 1,
                              model_x_state |-> GetState(self.mx),
                              model_y_state |-> GetState(self.my)]]]
    ELSE [ret |-> Raise, file |-> [kind |-> "corrupt"]]

CC_load(f) ==
    IF f.kind # "json" THEN Raise
    ELSE LET data == f.data
         IN  Return([CC_New EXCEPT
                 !.mx = SetState(Unfitted, Get(data, "model_x_state", <<>>)),
                 !.my = SetState(Unfitted, Get(data, "model_y_state", <<>>)),
                 !.is_trained = TRUE])

(***************************************************************************)
(* Calibrator "EA": MonocularEyeAssist/core/calibration.py                 *)
(***************************************************************************)
\* `if len(self._feats) < 12: return` and `if len(F2) >= 12:`
EA_min_samples == 12

\* _feats and _targets are one list of pairs here: they grow together.
EA_New ==
    [cls |-> "EA", samples |-> <<>>, model |-> None,
     last_inlier_mask |-> None]

EA_reset(self) ==
    [self EXCEPT !.samples = <<>>, !.model = None, !.last_inlier_mask = None]

EA_add_sample(self, f, xy) == [self EXCEPT !.samples = Append(@, <<f, xy>>)]

EA_train_guard_mutant(self) == FALSE
EA_train_guard(self) == Len(self.samples) < EA_min_samples
\* train(): fit is what fitting on all samples returns, refit what fitting
\* on the inliers returns, mask what _mad_mask(e, 3.0) returns.
EA_train(self, fit, refit, mask) ==
    IF EA_train_guard(self) THEN self
    ELSE LET m == IF CountTrue(mask) >= EA_min_samples THEN refit ELSE fit
         IN  [self EXCEPT
                 !.last_inlier_mask = mask,
                 !.model = [mx |-> Ridge(m.mx.icpt, m.mx.slope),
                            my |-> Ridge(m.my.icpt, m.my.slope)]]

\* int(max(0, min(screen - 1, out))), out in half pixels
EA_clamp(out, size) == PyInt(Max(0, Min(2 * (size - 1), out)))
EA_predict(self, f) ==
    IF self.model = None THEN Return(<<0, 0>>)
    ELSE Return(<<EA_clamp(EstPredict(self.model.mx, f[1]), ScreenW),
                  EA_clamp(EstPredict(self.model.my, f[2]), ScreenH)>>)

\* save(path): returns without writing when there is no model; otherwise
\* writes the scaler, the degree and the two Ridge coefficient sets.
EA_save(self, f) ==
    IF self.model = None THEN [ret |-> Return(None), file |-> f]
    ELSE [ret |-> Return(None),
          file |-> [kind |-> "json",
                    data |-> [scaler |-> GetState(StandardScaler),
                              rx |-> [icpt |-> self.model.mx.icpt,
                                      slope |-> self.model.mx.slope],
                              ry |-> [icpt |-> self.model.my.icpt,
                                      slope |-> self.model.my.slope]]]]

\* load(path): a CalibModel, None for a missing file, or an exception
\* (json.load fails, or data["scaler"], data["rx"], data["ry"] is missing).
EA_load(f) ==
    IF f.kind = "missing" THEN Return(None)
    ELSE IF f.kind # "json" THEN Raise
    ELSE LET data == f.data
         IN  IF {"scaler", "rx", "ry"} \subseteq DOMAIN data
             THEN Return([mx |-> Ridge(data.rx.icpt, data.rx.slope),
                          my |-> Ridge(data.ry.icpt, data.ry.slope)])
             ELSE Raise

\* int(round(n / d)) for d > 0: nearest integer, ties to even
PyRoundDiv(n, d) ==
    LET q == n \div d
        r == n % d
    IN  IF 2 * r < d THEN q
        ELSE IF 2 * r > d THEN q + 1
        ELSE IF q % 2 = 0 THEN q ELSE q + 1

(***************************************************************************)
(* DriftCorrector: MonocularTracker/ai/drift_corrector.py and              *)
(* MonocularTracker/tracking/drift_corrector.py, which hold the same code. *)
(* Errors are whole pixels (targets and observed points are ints).  The    *)
(* offset is a float in the code; here it is kept exactly, as a whole      *)
(* number of 1/unit pixels, `unit` being chosen at construction so that    *)
(* every step learn_rate * mean_error is a whole number of them.           *)
(***************************************************************************)
window_size == 60
\* threshold_ratio = 0.08 and learn_rate = 0.01 as fractions
threshold_ratio == <<8, 100>>
learn_rate == <<1, 100>>

\* DriftCorrector(window_size=window): self.window_size = max(1, window)
DriftNew(window, unit) ==
    [enabled |-> TRUE, window_size |-> Max(1, window), unit |-> unit,
     errors |-> <<>>, offset |-> <<0, 0>>]

\* reset()
drift_reset(self) == [self EXCEPT !.errors = <<>>, !.offset = <<0, 0>>]

\* correct(xy): int(round(x + offset_x)), int(round(y + offset_y))
drift_correct(self, xy) ==
    IF ~self.enabled THEN xy
    ELSE <<PyRoundDiv(xy[1] * self.unit + self.offset[1], self.unit),
           PyRoundDiv(xy[2] * self.unit + self.offset[2], self.unit)>>

SumX(errors) ==
    LET F[i \in 0 .. Len(errors)] ==
            IF i = 0 THEN 0 ELSE F[i - 1] + errors[i][1]
    IN  F[Len(errors)]
SumY(errors) ==
    LET F[i \in 0 .. Len(errors)] ==
            IF i = 0 THEN 0 ELSE F[i - 1] + errors[i][2]
    IN  F[Len(errors)]

\* deque(maxlen=window_size).append(err)
DequeAppend(self, err) ==
    IF Len(self.errors) = self.window_size
    THEN Append(Tail(self.errors), err)
    ELSE Append(self.errors, err)

\* max(1.0, screen_size[0] * threshold_ratio), in 1/100 pixels
DriftThresholdMutant(size) == threshold_ratio[2]
DriftThreshold(size) ==
    Max(threshold_ratio[2], size[1] * threshold_ratio[1])

\* `drift_mag > max(1.0, thresh)` for the mean (sx/n, sy/n) of the window:
\* (sx^2 + sy^2) / n^2 > (threshold / 100)^2; the left side of the
\* comparison below is an integer, so the right side may be rounded down.
DriftOver(errors, size) ==
    LET n  == Len(errors)
        sx == SumX(errors)
        sy == SumY(errors)
        th == DriftThreshold(size)
    IN  sx * sx + sy * sy
          > (n * n * th * th) \div (threshold_ratio[2] * threshold_ratio[2])

\* mean * learn_rate for the mean sum/n, in 1/unit pixels
DriftStepMutant(sum, n, unit) == 0
DriftStep(sum, n, unit) ==
    (sum * learn_rate[1] * unit) \div (n * learn_rate[2])

\* update(observed_xy, target_xy, screen_size)
drift_update(self, observed_xy, target_xy, size) ==
    IF ~self.enabled THEN self
    ELSE
      LET err    == <<target_xy[1] - observed_xy[1],
                      target_xy[2] - observed_xy[2]>>
          errors == DequeAppend(self, err)
          n      == Len(errors)
      IN  [self EXCEPT
              !.errors = errors,
              !.offset = IF DriftOver(errors, size)
                         THEN <<@[1] + DriftStep(SumX(errors), n, self.unit),
                                @[2] + DriftStep(SumY(errors), n, self.unit)>>
                         ELSE @]

offset(self) == self.offset

(***************************************************************************)
(* EmaSmoother: MonocularTracker/utils/smoothing.py                        *)
(* The float state is kept exactly, as an integer multiple of 1/Scale.     *)
(***************************************************************************)
\* settings "smoothing.alpha", default 0.2
alpha == <<1, 5>>
\* The clock of the tracking loop stops here: at most this many ticks.
MaxTickClock == 3
Pow(b, e) ==
    LET F[i \in 0 .. e] == IF i = 0 THEN 1 ELSE b * F[i - 1] IN F[e]
Scale == Pow(alpha[2], MaxTickClock)

\* Smoother.apply(xy) for xy not None: the new state and the value returned
smoother_update(state, xy) ==
    LET st == IF state = None THEN <<xy[1] * Scale, xy[2] * Scale>>
              ELSE <<(alpha[1] * xy[1] * Scale
                        + (alpha[2] - alpha[1]) * state[1]) \div alpha[2],
                     (alpha[1] * xy[2] * Scale
                        + (alpha[2] - alpha[1]) * state[2]) \div alpha[2]>>
    IN  [st |-> st,
         ret |-> <<PyRoundDiv(st[1], Scale), PyRoundDiv(st[2], Scale)>>]

(***************************************************************************)
(* Non-finite floats.  A coordinate that is nan or +-inf is the value      *)
(* NonFinite, which no finite coordinate of the model equals; arithmetic   *)
(* on it gives NonFinite and int(round(.)) of it raises (ValueError for    *)
(* nan, OverflowError for inf).                                            *)
(***************************************************************************)
NonFinite == -1000000
\* math.isfinite(v)
IsFinite(v) == v # NonFinite
IsFinitePoint(p) == IsFinite(p[1]) /\ IsFinite(p[2])
\* float(v), as a whole number of 1/unit
ToUnit(v, unit) == IF IsFinite(v) THEN v * unit ELSE NonFinite
\* (int(round(sx)), int(round(sy))) of a point kept in 1/unit
RoundPoint(st, unit) ==
    IF IsFinitePoint(st)
    THEN Return(<<PyRoundDiv(st[1], unit), PyRoundDiv(st[2], unit)>>)
    ELSE Raise

(***************************************************************************)
(* Smoother: MonocularTracker/utils/smoothing.py, with the alpha that      *)
(* EmaSmoother gives it.  The state is None or a point in 1/Scale pixel.   *)
(***************************************************************************)
\* `self.alpha * x + (1 - self.alpha) * sx` on one axis
EmaAxis(s, x) ==
    IF IsFinite(s) /\ IsFinite(x)
    THEN (alpha[1] * x * Scale + (alpha[2] - alpha[1]) * s) \div alpha[2]
    ELSE NonFinite

\* apply(xy): the new state and what the call returns or that it raises.
Smoother_apply(state, xy) ==
    IF xy = None
    THEN [st  |-> state,
          ret |-> IF state = None THEN Return(None)
                  ELSE RoundPoint(state, Scale)]
    ELSE LET st == IF state = None
                   THEN <<ToUnit(xy[1], Scale), ToUnit(xy[2], Scale)>>
                   ELSE <<EmaAxis(state[1], xy[1]), EmaAxis(state[2], xy[2])>>
         IN  [st |-> st, ret |-> RoundPoint(st, Scale)]

(***************************************************************************)
(* ButterworthLowPass: MonocularTracker/tracking/smoothing.py, at the      *)
(* sample rate of 30 Hz that Pipeline gives it (cutoff 6 Hz).  The floats  *)
(* of the code are kept in fixed point: the five biquad coefficients in    *)
(* 1/LpDen (0.20657, 0.41314, 0.20657, -0.36953, 0.19582 to four places),  *)
(* the memory and the outputs in 1/LpUnit of the input unit, each output   *)
(* rounded to that.  The object is None until the first sample, then the   *)
(* four memory points x1, x2, y1, y2.                                      *)
(***************************************************************************)
LpDen == 10000
LpUnit == 100
LpCoef == [b0 |-> 2066, b1 |-> 4131, b2 |-> 2066, a1 |-> -3695, a2 |-> 1958]

\* `b0 * x0 + b1 * x1 + b2 * x2 - a1 * yo1 - a2 * yo2` on one axis
LpAxis(x0, x1, x2, y1, y2) ==
    IF IsFinite(x0) /\ IsFinite(x1) /\ IsFinite(x2) /\ IsFinite(y1)
          /\ IsFinite(y2)
    THEN PyRoundDiv(LpCoef.b0 * x0 + LpCoef.b1 * x1 + LpCoef.b2 * x2
                       - LpCoef.a1 * y1 - LpCoef.a2 * y2, LpDen)
    ELSE NonFinite

\* The body shared by apply and apply_float, p the input in 1/LpUnit: the
\* new memory and the output.
LP_step(self, p) ==
    IF self = None
    THEN [st |-> [x1 |-> p, x2 |-> p, y1 |-> p, y2 |-> p], out |-> p]
    ELSE LET o == <<LpAxis(p[1], self.x1[1], self.x2[1], self.y1[1],
                           self.y2[1]),
                    LpAxis(p[2], self.x1[2], self.x2[2], self.y1[2],
                           self.y2[2])>>
         IN  [st  |-> [x1 |-> p, x2 |-> self.x1, y1 |-> o, y2 |-> self.y1],
              out |-> o]

\* apply(xy): (int(round(ox)), int(round(oy)))
LP_apply(self, xy) ==
    LET r == LP_step(self, <<ToUnit(xy[1], LpUnit), ToUnit(xy[2], LpUnit)>>)
    IN  [st |-> r.st, ret |-> RoundPoint(r.out, LpUnit)]

\* apply_float(xy): (ox, oy), in 1/LpUnit
LP_apply_float(self, xy) ==
    LET r == LP_step(self, <<ToUnit(xy[1], LpUnit), ToUnit(xy[2], LpUnit)>>)
    IN  [st |-> r.st, ret |-> Return(r.out)]

(***************************************************************************)
(* Pipeline: MonocularTracker/tracking/pipeline.py, with the Calibrator of *)
(* its Mapping (tracking/mapping.py) and its low-pass filter for the       *)
(* normalized coordinates.  A feature is a pair <<nx, ny>> in units of     *)
(* 1/FeatMax, so the filter memory is in 1/(FeatMax * LpUnit).             *)
(***************************************************************************)
\* Pipeline(...): not running, Mapping() with a fresh Calibrator, a fresh
\* ButterworthLowPass.
Pipeline_New == [running |-> FALSE, calib |-> TC_New("auto"), norm_lp |-> None]

\* FrameResult(frame, face_ok, eye_ok, predicted_xy, features); frame is
\* whether a frame is held.
FrameResult(frame, face_ok, eye_ok, predicted_xy, features) ==
    [frame |-> frame, face_ok |-> face_ok, eye_ok |-> eye_ok,
     predicted_xy |-> predicted_xy, features |-> features]

\* max(0.0, min(1.0, float(snx))), 1.0 being FeatMax * LpUnit
ClampNorm(v) == Max(0, Min(FeatMax * LpUnit, v))

\* process(): cam_ok is whether the camera delivers a frame, feats what
\* the parser makes of it.  The new object and the FrameResult; raised when
\* the Calibrator's predict raises.
Pipeline_process(self, cam_ok, feats) ==
    IF ~(self.running /\ cam_ok)
    THEN [st |-> self, raised |-> FALSE,
          res |-> FrameResult(FALSE, FALSE, FALSE, None, None)]
    ELSE IF feats = None
    THEN [st |-> self, raised |-> FALSE,
          res |-> FrameResult(TRUE, FALSE, FALSE, None, None)]
    ELSE IF ~IsFinitePoint(feats)
    THEN [st |-> self, raised |-> FALSE,
          res |-> FrameResult(TRUE, TRUE, FALSE, None, feats)]
    ELSE LET lp == LP_apply_float(self.norm_lp, feats)
             sn == <<ClampNorm(lp.ret.val[1]), ClampNorm(lp.ret.val[2])>>
             xy == TC_predict(self.calib, sn)
         IN  [st |-> [self EXCEPT !.norm_lp = lp.st],
              raised |-> xy.raised,
              res |-> IF xy.raised THEN None
                      ELSE FrameResult(TRUE, TRUE, TRUE, xy.val, feats)]

\* AppCore._on_calib_sample(target_xy): process(), then the features of
\* the result, if it has any, go to the Calibrator with the target.
on_calib_sample(self, cam_ok, feats, target_xy) ==
    LET r == Pipeline_process(self, cam_ok, feats)
    IN  IF r.raised \/ r.res.features = None THEN r
        ELSE [r EXCEPT !.st.calib = TC_add(@, r.res.features, target_xy)]

(***************************************************************************)
(* TrendPredictor: MonocularTracker/tracking/smoothing.py ("MT", which     *)
(* takes and returns whole pixels) and MonocularEyeAssist/core/smoothing.py *)
(* ("EA", which returns floats).  Inputs are whole pixels; a returned      *)
(* coordinate is kept exactly, as a whole number of 1/TrendUnit pixels.    *)
(***************************************************************************)
\* The default lookahead of each class: 0.15 and 0.2.
TrendLookahead(cls) == IF cls = "MT" THEN <<3, 20>> ELSE <<1, 5>>
\* The jitter threshold of each class, in pixels: 1.5 and 2.0.
TrendThreshold(cls) == IF cls = "MT" THEN <<3, 2>> ELSE <<2, 1>>
\* lookahead * v is a whole number of 1/TrendUnit pixels for both classes.
TrendUnit == 20

\* TrendPredictor(window): deque(maxlen=max(4, int(window)))
TP_New(cls, window) ==
    [cls |-> cls, maxlen |-> Max(4, window), hist |-> <<>>]

TP_reset(self) == [self EXCEPT !.hist = <<>>]

\* sum(abs(xs[i] - xs[i - 1]) for i in range(1, len(xs))), k the axis
SumAbsDiff(hist, k) ==
    LET F[i \in 1 .. Len(hist)] ==
            IF i = 1 THEN 0 ELSE F[i - 1] + Abs(hist[i][k] - hist[i - 1][k])
    IN  F[Len(hist)]

\* `jitter < threshold` with jitter = 0.5 * (mx + my), mx and my the sums
\* of absolute successive differences divided by len - 1.
JitterBelow(cls, hist) ==
    LET th == TrendThreshold(cls)
    IN  th[2] * (SumAbsDiff(hist, 1) + SumAbsDiff(hist, 2))
            < 2 * (Len(hist) - 1) * th[1]

\* The projected coordinate xi + lookahead * v; "MT" returns
\* int(round(...)) of it, "EA" the float.
TP_projectMutant(cls, xi, v) == xi * TrendUnit
TP_project(cls, xi, v) ==
    LET la  == TrendLookahead(cls)
        raw == xi * TrendUnit + ((la[1] * TrendUnit) \div la[2]) * v
    IN  IF cls = "MT" THEN PyRoundDiv(raw, TrendUnit) * TrendUnit ELSE raw

\* update(x, y): the new object and the point returned.
TP_update(self, x, y) ==
    LET full == Append(self.hist, <<x, y>>)
        hist == IF Len(full) > self.maxlen THEN Tail(full) ELSE full
        n    == Len(hist)
        same == <<x * TrendUnit, y * TrendUnit>>
    IN  [st  |-> [self EXCEPT !.hist = hist],
         ret |-> IF n < 4 THEN same
                 ELSE IF JitterBelow(self.cls, hist) THEN same
                 ELSE <<TP_project(self.cls, x, hist[n][1] - hist[n - 1][1]),
                        TP_project(self.cls, y, hist[n][2] - hist[n - 1][2])>>]

(***************************************************************************)
(* App: MonocularTracker/app.py                                            *)
(***************************************************************************)
\* App(settings, enable_cursor=True, auto_start_calibration=False); `cursor`
\* is the last position given to CursorController.move_cursor.  The drift
\* offset is kept in whole pixels: DriftUpdate feeds equal errors that are
\* multiples of 100, so every step is a whole number of pixels.
AppNew ==
    [enable_cursor |-> TRUE, auto_start_calibration |-> FALSE,
     tracking_enabled |-> FALSE, drift |-> DriftNew(window_size, 1),
     smoother |-> None,
     cursor |-> None]

\* The fallback mapping of an untrained calibrator:
\* int(screen_w * nx), int(screen_h * ny) with nx = f[1] / FeatMax.
FallbackXY(f) == <<(ScreenW * f[1]) \div FeatMax, (ScreenH * f[2]) \div FeatMax>>

\* The gate before cursor.move_cursor:
\* `self.enable_cursor and self.tracking_enabled`.
CursorGateMutant(self) == TRUE
CursorGate(self) == self.enable_cursor /\ self.tracking_enabled

\* _on_tick with a frame and features f, at time t: the new App fields, the
\* new FailsafeManager fields and what happened.
on_tick(self, cal, fs, t, f) ==
    LET p == IF cal.is_trained THEN CC_predict(cal, f)
             ELSE Return(FallbackXY(f))
    IN  IF p.raised
        THEN [app |-> self, fs |-> fs, raised |-> TRUE, called |-> FALSE,
              moved |-> FALSE]
        ELSE
          LET xy_corr == IF self.auto_start_calibration THEN p.val
                         ELSE drift_correct(self.drift, p.val)
              sm      == smoother_update(self.smoother, xy_corr)
              r       == process(fs, t, sm.ret, TRUE, screen_size,
                                 offset(self.drift))
              moved   == r.ret # None /\ CursorGate(self)
          IN  [app |-> [self EXCEPT !.smoother = sm.st,
                                    !.cursor = IF moved THEN r.ret ELSE @],
               fs |-> r.st, raised |-> FALSE, called |-> TRUE,
               moved |-> moved, candidate_xy |-> sm.ret, allowed |-> r.ret]

(***************************************************************************)
(* State machine.                                                          *)
(***************************************************************************)
failsafeVars == <<now, failsafe, fcall>>
calibVars == <<calib, file, ccall, saved>>
appVars == <<app, tcall>>
driftVars == <<drift, dcall, dlog>>
trendVars == <<trend, pcall>>
stageVars == <<stages, scall>>
pipeVars == <<pipe, rcall>>
uiVars == <<ui, ucall>>
\* The variables of the components specified after the DriftCorrector.
extVars == <<trendVars, stageVars, pipeVars, uiVars>>

NoCall == [op |-> "none"]

\* The process has started; no application object is constructed yet, so
\* no calibrator is held and the calibration file is absent.
FileMissing == [kind |-> "missing"]
Init ==
    /\ now = 0
    /\ failsafe = FailsafeInit(0)
    /\ fcall = NoCall
    /\ calib = None
    /\ file = FileMissing
    /\ ccall = NoCall
    /\ saved = None
    /\ app = AppNew
    /\ tcall = NoCall
    /\ drift = None
    /\ dcall = NoCall
    /\ dlog = <<>>
    /\ trend = None
    /\ pcall = NoCall
    /\ stages = None
    /\ scall = NoCall
    /\ pipe = None
    /\ rcall = NoCall
    /\ ui = None
    /\ ucall = NoCall

(***************************************************************************)
(* FailsafeManager specification.                                          *)
(***************************************************************************)
\* Candidates: (0,0)-(3,0) is a jump of exactly 15% of a 20 pixel wide
\* screen, (0,0)-(3,1) and everything to (8,0) are more than that.
Candidates == {None, <<0, 0>>, <<3, 0>>, <<3, 1>>, <<8, 0>>}
\* Drift offsets: absent, exactly at the cap (72-96-120 triangle), and one
\* beyond it with both components below the cap.
DriftOffsets == {None, <<72, 96>>, <<96, 97>>}
\* Tick gaps: from one clock unit to one more than the stale threshold.
Gaps == 1 .. (max_frame_gap_s + 1)

\* The position process() returned last since the manager was constructed
\* or reset, None when it has returned none.
LastReturned ==
    IF fcall.op = "process"
    THEN IF fcall.ret # None THEN fcall.ret ELSE fcall.prev
    ELSE None

\* One process() call, dt clock units after the previous read of the clock.
Process(dt, candidate_xy, features_present, drift_offset) ==
    /\ now + dt <= MaxClock
    /\ LET r == process(failsafe, now + dt, candidate_xy, features_present,
                        screen_size, drift_offset)
       IN  /\ failsafe' = r.st
           /\ fcall' = [op |-> "process", t |-> now + dt, dt |-> dt,
                        candidate_xy |-> candidate_xy,
                        features_present |-> features_present,
                        drift_offset |-> drift_offset,
                        pre |-> failsafe, ret |-> r.ret,
                        prev |-> LastReturned]
    /\ now' = now + dt
    /\ UNCHANGED <<calibVars, appVars, driftVars, extVars>>

\* One reset() call.
Reset(dt) ==
    /\ now + dt <= MaxClock
    /\ failsafe' = FailsafeReset(failsafe, now + dt)
    /\ fcall' = [op |-> "reset", t |-> now + dt, pre |-> failsafe]
    /\ now' = now + dt
    /\ UNCHANGED <<calibVars, appVars, driftVars, extVars>>

FailsafeProcess ==
    \E dt \in Gaps, c \in Candidates, fp \in BOOLEAN, d \in DriftOffsets :
        Process(dt, c, fp, d)

FailsafeResetCall == \E dt \in Gaps : Reset(dt)

NextFailsafe == FailsafeProcess \/ FailsafeResetCall

SpecFailsafe == Init /\ [][NextFailsafe]_vars

(***************************************************************************)
(* Calibrator specification: the calibration file, the construction of the *)
(* application object that holds the calibrator (which loads the file),    *)
(* and the calls on the calibrator.                                        *)
(***************************************************************************)
\* A file that json.load rejects, or whose JSON value is not an object.
FileCorrupt == [kind |-> "corrupt"]
FileJson(d) == [kind |-> "json", data |-> d]
\* JSON documents: the empty object, documents with the keys each class
\* writes, and one cut short after the first estimator.
DocEmpty == <<>>
DocTC ==
    [method |-> "mlp", mx_state |-> GetState(FitOver.mx),
     my_state |-> GetState(FitOver.my), scaler_state |-> GetState(StandardScaler)]
DocTCPartial == [method |-> "mlp", mx_state |-> GetState(FitGood.mx)]
DocCC ==
    [version |-> 1, model_x_state |-> GetState(FitOver.mx),
     model_y_state |-> GetState(FitOver.my)]
\* The "CC" document with another format version.
DocCCv2 == [DocCC EXCEPT !.version = 2]
DocEA ==
    [scaler |-> StandardScaler,
     rx |-> [icpt |-> FitOver.mx.icpt, slope |-> FitOver.mx.slope],
     ry |-> [icpt |-> FitOver.my.icpt, slope |-> FitOver.my.slope]]
Files ==
    {FileMissing, FileCorrupt, FileJson(DocEmpty), FileJson(DocTC),
     FileJson(DocTCPartial), FileJson(DocCC), FileJson(DocCCv2),
     FileJson(DocEA)}

Classes == {"TC", "CC", "EA"}
Features == (0 .. FeatMax) \X (0 .. FeatMax)
\* The sample a calibration point contributes: a feature and its target.
SampleInputs == {<<<<1, 1>>, <<ScreenW \div 2, ScreenH \div 2>>>>}
\* Residuals of the first fit: all equal, the last one an outlier, or all
\* different.
Residuals(n) ==
    {[i \in 1 .. n |-> 1], [i \in 1 .. n |-> IF i = n THEN 9 ELSE 1],
     [i \in 1 .. n |-> i]}
\* Inlier masks _mad_mask can return: all kept, the last one dropped, or
\* (more than half of the residuals being equal) only the first twelve kept.
MadMasks(n) ==
    {AllTrue(n), [i \in 1 .. n |-> i < n], [i \in 1 .. n |-> i <= 12]}

New(cls) ==
    CASE cls = "TC" -> TC_New("auto")
      [] cls = "CC" -> CC_New
      [] cls = "EA" -> EA_New

Load(cls, f) ==
    CASE cls = "TC" -> TC_load(f)
      [] cls = "CC" -> CC_load(f)
      [] cls = "EA" -> EA_load(f)

\* The calibrator an application holds after its constructor tried to load
\* the file:
\*   TC  core/app.py: `if os.path.exists(p): map.calib = Calibrator.load(p)`
\*       inside try/except pass
\*   CC  app.py: `try: calibrator = Calibrator.load(p)
\*                except Exception: calibrator = Calibrator(None)`
\*   EA  `loaded = Calibrator.load(p); if loaded is not None:
\*        calib.model = loaded` inside try/except pass
LoadAtStartup(cls, f) ==
    LET r == Load(cls, f)
    IN  CASE cls = "TC" ->
               IF f.kind # "missing" /\ ~r.raised THEN r.val ELSE New(cls)
          [] cls = "CC" -> IF ~r.raised THEN r.val ELSE New(cls)
          [] cls = "EA" ->
               IF ~r.raised /\ r.val # None
               THEN [New(cls) EXCEPT !.model = r.val] ELSE New(cls)

Predict(c, f) ==
    CASE c.cls = "TC" -> TC_predict(c, f)
      [] c.cls = "CC" -> CC_predict(c, f)
      [] c.cls = "EA" -> EA_predict(c, f)

Save(c, f, mlp_json) ==
    CASE c.cls = "TC" -> TC_save(c, f, mlp_json)
      [] c.cls = "CC" -> CC_save(c, f, mlp_json)
      [] c.cls = "EA" -> EA_save(c, f)

\* The calibrator holds a model: is_trained, or model is not None.
HasModel(c) == IF c.cls = "EA" THEN c.model # None ELSE c.is_trained

\* What the calibrator predicts for every feature.
Predictions(c) == [f \in Features |-> Predict(c, f)]

\* The environment writes the calibration file before the application
\* starts.
FileChange(f) ==
    /\ calib = None
    /\ file # f
    /\ file' = f
    /\ saved' = None
    /\ UNCHANGED <<calib, ccall, failsafeVars, appVars, driftVars, extVars>>

\* An application object is constructed and loads the file.
Construct(cls) ==
    /\ calib = None
    /\ calib' = LoadAtStartup(cls, file)
    /\ ccall' = [op |-> "load", cls |-> cls, file |-> file, pre |-> New(cls),
                 ret |-> Load(cls, file)]
    /\ UNCHANGED <<file, saved, failsafeVars, appVars, driftVars, extVars>>

AddSample(s) ==
    /\ calib # None
    /\ calib' = CASE calib.cls = "TC" -> TC_add(calib, s[1], s[2])
                  [] calib.cls = "CC" -> CC_add_sample(calib, s[1], s[2])
                  [] calib.cls = "EA" -> EA_add_sample(calib, s[1], s[2])
    /\ ccall' = [op |-> "add", pre |-> calib]
    /\ UNCHANGED <<file, saved, failsafeVars, appVars, driftVars, extVars>>

CalibAdd(s) ==
    /\ calib # None
    /\ Len(calib.samples) < MaxSamples
    /\ AddSample(s)

CalibTrain(fa, fb, ra, rb, errs, mask) ==
    /\ calib # None
    /\ calib' = CASE calib.cls = "TC" -> TC_train(calib, fa, fb, ra, rb, errs)
                  [] calib.cls = "CC" -> CC_train(calib, fa)
                  [] calib.cls = "EA" -> EA_train(calib, fa, ra, mask)
    /\ ccall' = [op |-> "train", pre |-> calib]
    /\ UNCHANGED <<file, saved, failsafeVars, appVars, driftVars, extVars>>

CalibPredict(f) ==
    /\ calib # None
    /\ ccall' = [op |-> "predict", f |-> f, pre |-> calib,
                 ret |-> CASE calib.cls = "TC" -> TC_predict(calib, f)
                           [] calib.cls = "CC" -> CC_predict(calib, f)
                           [] calib.cls = "EA" -> EA_predict(calib, f)]
    /\ UNCHANGED <<calib, file, saved, failsafeVars, appVars, driftVars, extVars>>

\* save(path); the callers swallow the exception.
CalibSave(mlp_json) ==
    /\ calib # None
    /\ LET r == Save(calib, file, mlp_json)
       IN  /\ file' = r.file
           /\ ccall' = [op |-> "save", pre |-> calib, file |-> file,
                        ret |-> r.ret]
           /\ saved' = IF HasModel(calib)
                       THEN [cls |-> calib.cls, method |-> Get(calib, "method", ""),
                             pred |-> Predictions(calib)]
                       ELSE saved
    /\ UNCHANGED <<calib, failsafeVars, appVars, driftVars, extVars>>

\* The application exits; the file stays.
Exit ==
    /\ calib # None
    /\ calib' = None
    /\ ccall' = [op |-> "exit", pre |-> calib]
    /\ UNCHANGED <<file, saved, failsafeVars, appVars, driftVars, extVars>>

CalibReset ==
    /\ calib # None
    /\ calib' = CASE calib.cls = "TC" -> TC_reset(calib)
                  [] calib.cls = "CC" -> CC_reset(calib)
                  [] calib.cls = "EA" -> EA_reset(calib)
    /\ ccall' = [op |-> "reset", pre |-> calib]
    /\ UNCHANGED <<file, saved, failsafeVars, appVars, driftVars, extVars>>

CalibFileChange == \E f \in Files : FileChange(f)
CalibConstruct == \E cls \in Classes : Construct(cls)
CalibAddSample == \E s \in SampleInputs : CalibAdd(s)
\* The inputs each class's train() reads: both candidate fits for "TC",
\* and the refits and residuals once its robust pass can run; one fit for
\* "CC"; a fit, a refit and a mask for "EA".
CalibTrainCall ==
    /\ calib # None
    /\ LET n      == Len(calib.samples)
           robust == calib.cls = "TC" /\ n >= TC_robust_min_samples
       IN  \E fa \in Fits :
             \E fb \in (IF calib.cls = "TC" THEN Fits ELSE {fa}),
                ra \in (IF robust \/ calib.cls = "EA" THEN Fits ELSE {fa}) :
               \E rb \in (IF robust THEN Fits ELSE {fb}),
                  errs \in (IF robust THEN Residuals(n) ELSE {AllTrue(n)}),
                  mask \in (IF calib.cls = "EA" THEN MadMasks(n)
                            ELSE {AllTrue(n)}) :
                 CalibTrain(fa, fb, ra, rb, errs, mask)
CalibPredictCall == \E f \in Features : CalibPredict(f)
CalibSaveCall == \E mlp_json \in BOOLEAN : CalibSave(mlp_json)

NextCalib ==
    \/ CalibFileChange
    \/ CalibConstruct
    \/ CalibAddSample
    \/ CalibTrainCall
    \/ CalibPredictCall
    \/ CalibSaveCall
    \/ Exit
    \/ CalibReset

SpecCalib == Init /\ [][NextCalib]_vars

(***************************************************************************)
(* Robust training specification: sample lists long enough for the robust  *)
(* pass of "TC" (40 samples) and the outlier filter of "EA", with the      *)
(* robust settings start_calibration takes from the main window.           *)
(***************************************************************************)
\* The longest sample list here.
MaxTrainSamples == 41
\* Drop percentages: the default and the largest the spin box offers.
DropPercents == {15, 40}

Configure(enabled, drop_percent) ==
    /\ calib # None
    /\ calib.cls = "TC"
    /\ calib' = TC_configure_robust(calib, enabled, drop_percent)
    /\ ccall' = [op |-> "configure", pre |-> calib]
    /\ UNCHANGED <<file, saved, failsafeVars, appVars, driftVars, extVars>>

TrainAdd(s) ==
    /\ calib # None
    /\ Len(calib.samples) < MaxTrainSamples
    /\ AddSample(s)

RobustConstruct == \E cls \in {"TC", "EA"} : Construct(cls)
RobustConfigure ==
    \E enabled \in BOOLEAN, pct \in DropPercents : Configure(enabled, pct)
RobustAddSample == \E s \in SampleInputs : TrainAdd(s)
\* train(): one first fit for both axes and one refit, the residuals once
\* the robust pass of "TC" can run, a mask for "EA".
RobustTrain ==
    /\ calib # None
    /\ LET n      == Len(calib.samples)
           robust == calib.cls = "TC" /\ n >= TC_robust_min_samples
       IN  \E fit \in Fits :
             \E errs \in (IF robust THEN Residuals(n) ELSE {AllTrue(n)}),
                mask \in (IF calib.cls = "EA" THEN MadMasks(n)
                          ELSE {AllTrue(n)}) :
               CalibTrain(fit, fit, FitGood, FitGood, errs, mask)

NextRobust ==
    \/ RobustConstruct
    \/ RobustConfigure
    \/ RobustAddSample
    \/ RobustTrain

SpecRobust == Init /\ [][NextRobust]_vars

(***************************************************************************)
(* App specification: the tracking loop of MonocularTracker/app.py, whose  *)
(* calibrator is a "CC".                                                   *)
(***************************************************************************)
\* The most error samples fed to the drift corrector.
MaxDriftUpdates == 3
\* The most samples the calibrator of the App collects.
MaxSessionSamples == 1
\* Each update with this validation target, observed at (0, 0), moves the
\* offset by (36, 48), that is by 60 pixels.
DriftTargets == {<<3600, 4800>>}
AppFiles == {FileJson(DocEmpty), FileJson(DocCC)}
\* Features seen by the loop: the two corners of the normalized range
\* (nx = ny = 0 and nx = ny = 1.0) and a point in between.
TickFeatures == {<<0, 0>>, <<1, 0>>, <<FeatMax, FeatMax>>}

\* Whether start_tracking() has been called and trigger_panic() has not been
\* since.
Armed == tcall.op # "none" /\ tcall.armed

\* start_tracking(): constructs the App on first use (which loads the
\* calibration file), then enables the cursor and tracking.
StartTracking ==
    /\ IF calib = None
       THEN /\ calib' = LoadAtStartup("CC", file)
            /\ ccall' = [op |-> "load", cls |-> "CC", file |-> file,
                         pre |-> New("CC"), ret |-> Load("CC", file)]
       ELSE UNCHANGED <<calib, ccall>>
    /\ app' = [app EXCEPT !.enable_cursor = TRUE, !.tracking_enabled = TRUE]
    /\ tcall' = [op |-> "start", restart |-> tcall.op = "panic",
                 armed |-> TRUE]
    /\ UNCHANGED <<file, saved, failsafeVars, driftVars, extVars>>

\* trigger_panic() with an App constructed.
TriggerPanic ==
    /\ calib # None
    /\ app' = [app EXCEPT !.enable_cursor = FALSE, !.tracking_enabled = FALSE]
    /\ tcall' = [op |-> "panic", armed |-> FALSE]
    /\ UNCHANGED <<calibVars, failsafeVars, driftVars, extVars>>

\* run_calibration() with an App constructed: the cursor is disabled, the
\* loop enabled for sampling and the CalibrationUI started.
RunCalibration ==
    /\ calib # None
    /\ app' = [app EXCEPT !.enable_cursor = FALSE,
                          !.auto_start_calibration = TRUE,
                          !.tracking_enabled = TRUE]
    /\ tcall' = [op |-> "run_calibration", armed |-> Armed]
    /\ UNCHANGED <<calibVars, failsafeVars, driftVars, extVars>>

\* _on_calibration_sample_requested(target_pos), emitted by the
\* CalibrationUI while it runs; f is None when there is no frame or no face.
CalibrationSample(f, target_pos) ==
    /\ calib # None
    /\ app.auto_start_calibration
    /\ Len(calib.samples) < MaxSessionSamples
    /\ calib' = IF f = None THEN calib
                ELSE CC_add_sample(calib, f, target_pos)
    /\ ccall' = [op |-> "add", pre |-> calib]
    /\ tcall' = [op |-> "sample", armed |-> Armed]
    /\ UNCHANGED <<file, saved, app, failsafeVars, driftVars, extVars>>

\* _on_calibration_finished(): train, save (a failure is only printed),
\* then the safe defaults.
CalibrationFinished(fit, mlp_json) ==
    /\ calib # None
    /\ app.auto_start_calibration
    /\ LET trained == CC_train(calib, fit)
           r       == CC_save(trained, file, mlp_json)
       IN  /\ calib' = trained
           /\ file' = r.file
           /\ ccall' = [op |-> "save", pre |-> trained, file |-> file,
                        ret |-> r.ret]
           /\ saved' = IF HasModel(trained)
                       THEN [cls |-> "CC", method |-> "",
                             pred |-> Predictions(trained)]
                       ELSE saved
    /\ app' = [app EXCEPT !.auto_start_calibration = FALSE,
                          !.tracking_enabled = FALSE,
                          !.enable_cursor = FALSE]
    /\ tcall' = [op |-> "finished", armed |-> Armed]
    /\ UNCHANGED <<failsafeVars, driftVars, extVars>>

\* _on_tick(), dt clock units after the previous read of the clock; f is
\* the parsed features, None when there is no frame or no face.
OnTick(dt, f) ==
    /\ calib # None
    /\ now + dt <= MaxTickClock
    /\ now' = now + dt
    /\ IF ~app.tracking_enabled \/ f = None
       THEN /\ tcall' = [op |-> "tick", ran |-> FALSE, moved |-> FALSE,
                      armed |-> Armed]
            /\ UNCHANGED <<app, failsafe, fcall>>
       ELSE LET r == on_tick(app, calib, failsafe, now + dt, f)
            IN  /\ app' = r.app
                /\ failsafe' = r.fs
                /\ fcall' = IF r.called
                            THEN [op |-> "process", t |-> now + dt,
                                  dt |-> now + dt - failsafe.last_time,
                                  candidate_xy |-> r.candidate_xy,
                                  features_present |-> TRUE,
                                  drift_offset |-> offset(app.drift),
                                  pre |-> failsafe, ret |-> r.allowed,
                                  prev |-> LastReturned]
                            ELSE fcall
                /\ tcall' = [op |-> "tick", ran |-> TRUE, f |-> f,
                             raised |-> r.raised, moved |-> r.moved,
                             drift_offset |-> offset(app.drift),
                             cursor |-> r.app.cursor, armed |-> Armed]
    /\ UNCHANGED <<calibVars, driftVars, extVars>>

\* DriftCorrector.update(observed, target, screen_size), fed by a
\* validation point.
DriftUpdate(target_xy) ==
    /\ calib # None
    /\ Len(app.drift.errors) < MaxDriftUpdates
    /\ app' = [app EXCEPT
                 !.drift = drift_update(@, <<0, 0>>, target_xy, screen_size)]
    /\ tcall' = [op |-> "drift_update", armed |-> Armed]
    /\ UNCHANGED <<calibVars, failsafeVars, driftVars, extVars>>

AppFileChange == \E f \in AppFiles : FileChange(f)
AppTick == \E dt \in Gaps, f \in TickFeatures \cup {None} : OnTick(dt, f)
AppDriftUpdate == \E t \in DriftTargets : DriftUpdate(t)
AppCalibrationSample ==
    \E f \in {None, <<1, 1>>} : CalibrationSample(f, <<10, 5>>)
AppCalibrationFinished ==
    \E mlp_json \in BOOLEAN : CalibrationFinished(FitGood, mlp_json)

NextApp ==
    \/ AppFileChange
    \/ StartTracking
    \/ TriggerPanic
    \/ AppTick
    \/ AppDriftUpdate

SpecApp == Init /\ [][NextApp]_vars

(***************************************************************************)
(* Calibration session specification: the App started with no calibration  *)
(* file, with start_tracking, trigger_panic, run_calibration, the signals   *)
(* of the CalibrationUI and the ticks of the loop in every order.          *)
(***************************************************************************)
SessionTick == \E f \in {None, <<1, 0>>} : OnTick(1, f)

NextSession ==
    \/ StartTracking
    \/ TriggerPanic
    \/ RunCalibration
    \/ AppCalibrationSample
    \/ AppCalibrationFinished
    \/ SessionTick
    \/ AppDriftUpdate

SpecSession == Init /\ [][NextSession]_vars

(***************************************************************************)
(* DriftCorrector specification: one corrector with a short window, so     *)
(* that the window fills and rolls, fed with errors on two screen widths.  *)
(***************************************************************************)
\* The longest window a corrector is constructed with.
MaxWindow == 3
\* The most update() calls between two reset() calls.
MaxUpdates == 4
Gcd(a, b) ==
    CHOOSE g \in 1 .. a :
        /\ a % g = 0 /\ b % g = 0
        /\ \A h \in 1 .. a : (a % h = 0 /\ b % h = 0) => h <= g
LcmUpTo(n) ==
    LET F[i \in 1 .. n] ==
            IF i = 1 THEN 1 ELSE (F[i - 1] * i) \div Gcd(F[i - 1], i)
    IN  F[n]
\* 1/OffsetUnit pixel holds learn_rate * (sum / n) for every window length
\* n up to MaxWindow.
OffsetUnit == learn_rate[2] * LcmUpTo(MaxWindow)
DriftWindows == {2, MaxWindow}
\* Screen sizes: thresholds of 8 and of 80 pixels.
DriftScreens == {<<100, 100>>, <<1000, 1000>>}
\* The mapped point every update observes, and the errors target - observed
\* of the targets: none, a small and a large horizontal bias, and a large
\* oblique one.
ObservedXY == <<500, 300>>
DriftErrors == {<<0, 0>>, <<10, 0>>, <<100, 0>>, <<-30, 120>>}

\* The mean error of the window is longer than threshold_ratio times the
\* screen width: (sx^2 + sy^2) / n^2 > (ratio * width)^2.
MeanExceedsRatio(errors, size) ==
    LET n == Len(errors)
    IN  SumX(errors) * SumX(errors) + SumY(errors) * SumY(errors)
          > (n * n * (size[1] * threshold_ratio[1])
                   * (size[1] * threshold_ratio[1]))
              \div (threshold_ratio[2] * threshold_ratio[2])

DriftConstruct(window) ==
    /\ drift = None
    /\ drift' = DriftNew(window, OffsetUnit)
    /\ dcall' = [op |-> "new", pre |-> None]
    /\ dlog' = <<>>
    /\ UNCHANGED <<failsafeVars, calibVars, appVars, extVars>>

DriftUpdateCall(err, size) ==
    /\ drift # None
    /\ Len(dlog) < MaxUpdates
    /\ drift' = drift_update(drift, ObservedXY,
                             <<ObservedXY[1] + err[1], ObservedXY[2] + err[2]>>,
                             size)
    /\ dcall' = [op |-> "update", pre |-> drift, err |-> err, size |-> size]
    /\ dlog' = Append(dlog, [err |-> err, size |-> size,
                             exceeds |-> MeanExceedsRatio(drift'.errors, size)])
    /\ UNCHANGED <<failsafeVars, calibVars, appVars, extVars>>

DriftResetCall ==
    /\ drift # None
    /\ drift' = drift_reset(drift)
    /\ dcall' = [op |-> "reset", pre |-> drift]
    /\ dlog' = <<>>
    /\ UNCHANGED <<failsafeVars, calibVars, appVars, extVars>>

DriftConstructAny == \E window \in DriftWindows : DriftConstruct(window)
DriftUpdateAny ==
    \E err \in DriftErrors, size \in DriftScreens : DriftUpdateCall(err, size)

NextDrift ==
    \/ DriftConstructAny
    \/ DriftUpdateAny
    \/ DriftResetCall

SpecDrift == Init /\ [][NextDrift]_vars

(***************************************************************************)
(* TrendPredictor specification: one predictor of either class, fed with   *)
(* points that move by one of a few steps from the point fed before.       *)
(***************************************************************************)
\* The longest window a predictor is constructed with.
MaxTrendWindow == 5
\* Points fed to the predictor stay within this many pixels of the origin.
MaxCoord == 40
TrendClasses == {"MT", "EA"}
\* A window below the minimum of 4, and the longest one.
TrendWindows == {2, MaxTrendWindow}
\* Steps between successive points: rest, a step below both thresholds,
\* one exactly at the "MT" threshold and a fast one.
TrendSteps == {<<0, 0>>, <<1, 1>>, <<3, 0>>, <<10, 0>>}

TrendConstruct(cls, window) ==
    /\ trend' = TP_New(cls, window)
    /\ pcall' = [op |-> "new"]
    /\ UNCHANGED <<failsafeVars, calibVars, appVars, driftVars, stageVars,
                   pipeVars, uiVars>>

\* One update(x, y) call.
TrendUpdate(x, y) ==
    /\ trend # None
    /\ Abs(x) <= MaxCoord /\ Abs(y) <= MaxCoord
    /\ LET r == TP_update(trend, x, y)
       IN  /\ trend' = r.st
           /\ pcall' = [op |-> "update", x |-> x, y |-> y,
                        rolled |-> Len(trend.hist) = trend.maxlen,
                        ret |-> r.ret]
    /\ UNCHANGED <<failsafeVars, calibVars, appVars, driftVars, stageVars,
                   pipeVars, uiVars>>

TrendReset ==
    /\ trend # None
    /\ trend' = TP_reset(trend)
    /\ pcall' = [op |-> "reset"]
    /\ UNCHANGED <<failsafeVars, calibVars, appVars, driftVars, stageVars,
                   pipeVars, uiVars>>

TrendConstructAny ==
    \E cls \in TrendClasses, w \in TrendWindows : TrendConstruct(cls, w)
\* The point fed is the one fed before (the origin at first) plus a step.
TrendUpdateAny ==
    \E d \in TrendSteps :
        LET last == IF trend = None \/ trend.hist = <<>> THEN <<0, 0>>
                    ELSE trend.hist[Len(trend.hist)]
        IN  TrendUpdate(last[1] + d[1], last[2] + d[2])

NextTrend == TrendConstructAny \/ TrendUpdateAny \/ TrendReset

SpecTrend == Init /\ [][NextTrend]_vars

(***************************************************************************)
(* Properties of FailsafeManager.process, stated on the record of the last *)
(* call: its inputs, the fields before it (pre), the value returned (ret)  *)
(* and the fields after it (failsafe).                                     *)
(***************************************************************************)
IsProcessCall == fcall.op = "process"

\* The conditions of the call, from its inputs and the fields before it.
CallStale == fcall.dt > max_frame_gap_s
CallNoFeatures == (~fcall.features_present) \/ fcall.candidate_xy = None
CallDriftOver ==
    /\ fcall.drift_offset # None
    /\ fcall.drift_offset[1] * fcall.drift_offset[1]
         + fcall.drift_offset[2] * fcall.drift_offset[2] > 120 * 120
CallHasLast == fcall.pre.last_xy # None
\* 100 * |candidate - last_accepted| > 15 * screen width, squared
CallFar ==
    LET dx == fcall.candidate_xy[1] - fcall.pre.last_xy[1]
        dy == fcall.candidate_xy[2] - fcall.pre.last_xy[2]
    IN  100 * 100 * (dx * dx + dy * dy) > (15 * ScreenW) * (15 * ScreenW)
CallIdleElapsed == fcall.t - fcall.pre.last_move_time > autosleep_idle_s
\* Fresh tick, features and candidate present, drift within the cap.
CallClear == ~CallStale /\ ~CallNoFeatures /\ ~CallDriftOver

\* C1: process() called with features_present=False returns None, whatever
\* the state of the manager and whatever the candidate.
C1_NoFeaturesReturnsNone ==
    (IsProcessCall /\ ~fcall.features_present) => fcall.ret = None

\* C1 witness: a fresh tick with a candidate right on the last accepted point
\* and features_present=False has returned None.
C1_Witness ==
    /\ IsProcessCall /\ ~fcall.features_present /\ ~CallStale
    /\ CallHasLast /\ fcall.candidate_xy = fcall.pre.last_xy
    /\ fcall.ret = None

\* C2: a candidate farther than max_jump_ratio * screen_width from the last
\* accepted point (fresh tick, features present, drift within the cap) is
\* replaced by the last accepted point: the call returns last_accepted and
\* leaves the manager unfrozen, unless the idle timeout has elapsed, and then
\* the freeze is the idle freeze.
C2_SpikeSubstitutesLast ==
    (IsProcessCall /\ CallClear /\ CallHasLast /\ CallFar) =>
        IF CallIdleElapsed
        THEN fcall.ret = None /\ failsafe.reason = "autosleep"
        ELSE /\ fcall.ret = fcall.pre.last_xy
             /\ failsafe.last_xy = fcall.pre.last_xy
             /\ ~is_frozen(failsafe)

\* C2 witness: a spike has been answered with the last accepted point.
C2_Witness ==
    /\ IsProcessCall /\ CallClear /\ CallHasLast /\ CallFar
    /\ ~CallIdleElapsed
    /\ fcall.ret = fcall.pre.last_xy /\ ~is_frozen(failsafe)

\* C3: once frozen with reason 'autosleep', a later process() call neither
\* returns a position nor clears the frozen flag (only reset() resumes).
C3_AutosleepNeedsReset ==
    (IsProcessCall /\ fcall.pre.frozen /\ fcall.pre.reason = "autosleep") =>
        (fcall.ret = None /\ is_frozen(failsafe))

(***************************************************************************)
(* Properties of the tracking loop, stated on the record of the last run   *)
(* of _on_tick (tcall) and of the process() call it made (fcall).          *)
(***************************************************************************)
\* The tick got features, mapped them and called process().
TickCalledProcess == tcall.op = "tick" /\ tcall.ran /\ ~tcall.raised
\* The drift offset the tick passed to process() is longer than 120 pixels.
TickDriftOver ==
    tcall.drift_offset[1] * tcall.drift_offset[1]
      + tcall.drift_offset[2] * tcall.drift_offset[2] > 120 * 120

\* C4: whenever the drift offset passed to process() is longer than
\* max_drift_pixels, process() returns None, and the tick that passed it
\* does not move the cursor.
C4_DriftOverCapNeverReachesCursor ==
    /\ (IsProcessCall /\ CallDriftOver) => fcall.ret = None
    /\ (TickCalledProcess /\ TickDriftOver) =>
          (~tcall.moved /\ fcall.ret = None /\ is_frozen(failsafe))

\* C4 witness: with tracking and the cursor enabled, a fresh tick has passed
\* an offset beyond the cap and the manager has frozen with 'drift-limit'.
C4_Witness ==
    /\ TickCalledProcess /\ TickDriftOver
    /\ app.tracking_enabled /\ app.enable_cursor
    /\ ~CallStale
    /\ reason(failsafe) = "drift-limit"
    /\ ~tcall.moved

\* C5: the conditions are evaluated in the order stale gap, missing
\* features/candidate, drift limit, spike, idle timeout, and the first that
\* matches decides: the reason recorded is the earliest one that holds.
C5_FirstMatchDecides ==
    IsProcessCall =>
        /\ CallStale => (fcall.ret = None /\ failsafe.reason = "low-fps")
        /\ (~CallStale /\ CallNoFeatures) =>
               (fcall.ret = None /\ failsafe.reason = "no-features")
        /\ (~CallStale /\ ~CallNoFeatures /\ CallDriftOver) =>
               (fcall.ret = None /\ failsafe.reason = "drift-limit")
        /\ (CallClear /\ CallHasLast /\ CallFar /\ CallIdleElapsed) =>
               (fcall.ret = None /\ failsafe.reason = "autosleep")
        /\ (CallClear /\ CallHasLast /\ CallFar /\ ~CallIdleElapsed) =>
               (fcall.ret = fcall.pre.last_xy /\ failsafe.reason = "")

\* C5 witness: a stale tick without features has frozen with 'low-fps', the
\* earlier of the two reasons.
C5_Witness ==
    /\ IsProcessCall /\ CallStale /\ ~fcall.features_present
    /\ failsafe.reason = "low-fps"

\* C6 as claimed: after a freeze for 'low-fps', 'no-features' or
\* 'drift-limit', the next process() call with a fresh tick, features and
\* candidate present and drift within the cap returns a position and leaves
\* the manager unfrozen with an empty reason.
C6_NextClearTickResumes ==
    (/\ IsProcessCall /\ CallClear
     /\ fcall.pre.frozen
     /\ fcall.pre.reason \in {"low-fps", "no-features", "drift-limit"}) =>
        (fcall.ret # None /\ ~is_frozen(failsafe) /\ reason(failsafe) = "")

\* The last accepted point is what the call ends up comparing with itself:
\* the candidate is that point, or is rejected as a spike.
CallHoldsLast ==
    CallHasLast /\ (fcall.candidate_xy = fcall.pre.last_xy \/ CallFar)

\* C6 as amended: the same, except that the call freezes with 'autosleep'
\* when the idle timeout has elapsed since the last accepted movement and the
\* candidate is the last accepted point or is rejected as a spike.
C6_NextClearTickResumesUnlessIdle ==
    (/\ IsProcessCall /\ CallClear
     /\ fcall.pre.frozen
     /\ fcall.pre.reason \in {"low-fps", "no-features", "drift-limit"}) =>
        IF CallHoldsLast /\ CallIdleElapsed
        THEN fcall.ret = None /\ reason(failsafe) = "autosleep"
        ELSE fcall.ret # None /\ ~is_frozen(failsafe) /\ reason(failsafe) = ""

\* C6 witness: the call after a 'no-features' freeze has returned a position.
C6_Witness ==
    /\ IsProcessCall /\ CallClear
    /\ fcall.pre.frozen /\ fcall.pre.reason = "no-features"
    /\ fcall.ret # None /\ ~is_frozen(failsafe)

(***************************************************************************)
(* Properties of the calibrators, stated on the record of the last call    *)
(* (ccall): the object before it (pre), the value returned (ret) and the   *)
(* object after it (calib).                                                *)
(***************************************************************************)
OnScreen(xy) ==
    /\ 0 <= xy[1] /\ xy[1] < ScreenW
    /\ 0 <= xy[2] /\ xy[2] < ScreenH

\* C7: for every feature and every model state, the point predict returns
\* has 0 <= x < width and 0 <= y < height.
C7_PredictOnScreen ==
    (ccall.op = "predict" /\ ~ccall.ret.raised) => OnScreen(ccall.ret.val)

\* C8: every point handed to the cursor actuator satisfies 0 <= x < width
\* and 0 <= y < height.
C8_CursorOnScreen ==
    (TickCalledProcess /\ tcall.moved) => OnScreen(tcall.cursor)

\* C9: train() with fewer samples than the minimum sample count of the
\* class (12 for "EA"; 1 for "TC" and "CC", whose only guard is an empty
\* sample list) leaves the whole object as it was, whether or not a model
\* existed before.
C9_TrainBelowMinimumIsNoOp ==
    (/\ ccall.op = "train"
     /\ Len(ccall.pre.samples) < (IF ccall.pre.cls = "EA" THEN 12 ELSE 1)) =>
        calib = ccall.pre

\* C9 witness: an "EA" calibrator holding a model and 11 samples has been
\* told to train.
C9_Witness ==
    /\ ccall.op = "train"
    /\ ccall.pre.cls = "EA"
    /\ Len(ccall.pre.samples) = 11
    /\ ccall.pre.model # None
    /\ calib = ccall.pre

\* The file that was loaded is missing, is not JSON, or is the empty JSON
\* object.
LoadedFileInvalid ==
    ccall.file.kind = "json" => DOMAIN ccall.file.data = {}

\* C10: loading a missing or structurally invalid file reports failure and
\* leaves the calibrator held in memory as it was before the call.
C10_InvalidLoadFailsCleanly ==
    (ccall.op = "load" /\ LoadedFileInvalid) =>
        /\ ccall.ret.raised \/ ccall.ret.val = None
        /\ calib = ccall.pre

\* C11: round trip.  When the application loads the file that the last
\* save() call on a trained calibrator of the same class wrote, the
\* restored calibrator predicts, for every feature, what the saved one
\* predicted.
C11_RoundTrip ==
    (ccall.op = "load" /\ saved # None /\ ccall.cls = saved.cls) =>
        Predictions(calib) = saved.pred

\* The round trip where json.dump accepted the states and the method was
\* not 'poly2': it does restore the predictions.
WrittenFilesRestore ==
    (/\ ccall.op = "load" /\ saved # None /\ ccall.cls = saved.cls
     /\ ccall.file.kind = "json" /\ saved.method # "poly2") =>
        Predictions(calib) = saved.pred

\* C12: a record that holds model data but whose format version is absent
\* or differs from the reader's (the version "CC" writes is 1) fails to
\* load and installs nothing.
C12_VersionMismatchFailsLoad ==
    (/\ ccall.op = "load"
     /\ ccall.file.kind = "json"
     /\ DOMAIN ccall.file.data # {}
     /\ Get(ccall.file.data, "version", 0) # 1) =>
        /\ ccall.ret.raised \/ ccall.ret.val = None
        /\ calib = ccall.pre

\* C13: save() on a calibrator without a model raises and leaves the file
\* as it was.
C13_SaveUntrainedIsError ==
    (ccall.op = "save" /\ ~HasModel(ccall.pre)) =>
        (ccall.ret.raised /\ file = ccall.file)

\* The last call was a train() that fitted: the sample count it saw, the
\* mask it stored and the number of samples the mask keeps.
TrainFitted ==
    /\ ccall.op = "train"
    /\ Len(ccall.pre.samples) >= (IF ccall.pre.cls = "EA" THEN 12 ELSE 1)
TrainCount == Len(ccall.pre.samples)
TrainKept == Cardinality({i \in DOMAIN calib.last_inlier_mask :
                             calib.last_inlier_mask[i]})
\* It fitted again on the kept samples: "TC" when some sample was dropped,
\* "EA" when at least 12 are kept.
TrainRefitted ==
    IF ccall.pre.cls = "EA" THEN TrainKept >= 12 ELSE TrainKept < TrainCount

\* C14: the samples a robust refit uses are at least max(70% of the
\* samples, the fixed minimum count), the minimum count being 30 for "TC"
\* and 12 for "EA".
C14_RefitKeepsEnough ==
    (TrainFitted /\ ccall.pre.cls \in {"TC", "EA"} /\ TrainRefitted) =>
        /\ 10 * TrainKept >= 7 * TrainCount
        /\ TrainKept >= (IF ccall.pre.cls = "EA" THEN 12 ELSE 30)

\* No update since the reset saw a window mean longer than
\* threshold_ratio times the screen width.
NeverExceeded == \A i \in DOMAIN dlog : ~dlog[i].exceeds

\* C15: from reset, the offset is exactly (0, 0) after any updates in which
\* the mean error of the window was never longer than threshold_ratio times
\* the screen width.
C15_OffsetZeroUntilThreshold ==
    (drift # None /\ NeverExceeded) => offset(drift) = <<0, 0>>
\* Two updates or more, a window that holds an error and a mean that stayed
\* under the threshold.
C15_Witness ==
    /\ drift # None
    /\ Len(dlog) >= 2
    /\ NeverExceeded
    /\ \E i \in DOMAIN drift.errors : drift.errors[i] = <<-30, 120>>
    /\ offset(drift) = <<0, 0>>

\* Every update since the reset had the error e on a screen w pixels wide.
Bias(e, w) ==
    /\ dlog # <<>>
    /\ \A i \in DOMAIN dlog : dlog[i].err = e /\ dlog[i].size[1] = w

\* C16 as stated: on a screen 1000 pixels wide, after updates that all have
\* the error (10, 0), the x offset is positive and the y offset is 0.
C16_BiasOfTenMovesOffset ==
    Bias(<<10, 0>>, 1000) => (offset(drift)[1] > 0 /\ offset(drift)[2] = 0)
\* C16 amended: on a screen 1000 pixels wide the bias (10, 0), shorter than
\* the threshold of 80 pixels, leaves the offset at (0, 0); the bias
\* (100, 0) moves the x offset by exactly one pixel per update, the y offset
\* staying 0.
C16_BiasOverThresholdMovesOffset ==
    /\ Bias(<<10, 0>>, 1000) => offset(drift) = <<0, 0>>
    /\ Bias(<<100, 0>>, 1000) =>
          offset(drift) = <<Len(dlog) * drift.unit, 0>>
\* The bias (100, 0) has been fed more often than the window is long.
C16_Witness ==
    /\ Bias(<<100, 0>>, 1000)
    /\ Len(dlog) > drift.window_size
    /\ offset(drift)[1] > 0

\* Whenever the offset moves, it moves by learn_rate times the mean error
\* of the window: step * n * 100 = sum * 1 (in 1/unit pixels).
UpdateStepIsLearnRateTimesMean ==
    (dcall.op = "update" /\ offset(drift) # offset(dcall.pre)) =>
        LET n == Len(drift.errors)
        IN  /\ (offset(drift)[1] - offset(dcall.pre)[1]) * n * learn_rate[2]
                  = SumX(drift.errors) * learn_rate[1] * drift.unit
            /\ (offset(drift)[2] - offset(dcall.pre)[2]) * n * learn_rate[2]
                  = SumY(drift.errors) * learn_rate[1] * drift.unit

\* C17: one error sample alone does not move the offset: an update on a
\* window that holds no error yet (empty after reset, or all (0, 0)) leaves
\* the offset as it was.
C17_SingleSampleCannotMoveOffset ==
    (/\ dcall.op = "update"
     /\ \A i \in DOMAIN dcall.pre.errors : dcall.pre.errors[i] = <<0, 0>>)
        => offset(drift) = offset(dcall.pre)

\* C18: when a calibration session begins, the drift corrector is in its
\* reset condition: empty window, offset (0, 0).
C18_DriftResetWhenCalibrationBegins ==
    tcall.op = "run_calibration" =>
        (app.drift.errors = <<>> /\ offset(app.drift) = <<0, 0>>)

\* C19: when tracking is started again after a stop or panic, the
\* FailsafeManager is in its reset condition at the present time and the
\* smoother holds no memory.
C19_FreshStateOnRestart ==
    (tcall.op = "start" /\ tcall.restart) =>
        /\ failsafe = FailsafeReset(failsafe, now)
        /\ app.smoother = None

\* C20: no tick run while a calibration session is active moves the cursor.
C20_NoCursorMoveDuringCalibration ==
    (tcall.op = "tick" /\ tcall.ran /\ app.auto_start_calibration) =>
        ~tcall.moved

\* C28: between two reset() calls, a position returned by process() is at
\* most max_jump_ratio * screen_width away from the position returned before
\* it (whatever freezes lie between the two), and it is the candidate of the
\* call or the position returned before.
C28_ReturnedPositionsStepBounded ==
    (IsProcessCall /\ fcall.ret # None) =>
        /\ fcall.ret = fcall.candidate_xy \/ fcall.ret = fcall.prev
        /\ fcall.prev # None =>
              LET dx == fcall.ret[1] - fcall.prev[1]
                  dy == fcall.ret[2] - fcall.prev[2]
              IN  100 * 100 * (dx * dx + dy * dy)
                     <= (15 * ScreenW) * (15 * ScreenW)
\* A position was returned, then the manager froze, then a far candidate
\* came on a clear tick and the position returned before was returned again.
C28_Witness ==
    /\ IsProcessCall /\ fcall.ret # None /\ fcall.prev # None
    /\ fcall.pre.frozen
    /\ fcall.candidate_xy # fcall.ret
    /\ fcall.ret = fcall.prev

\* C29: on a clear tick whose candidate is farther than
\* max_jump_ratio * screen_width from last_accepted, last_accepted and the
\* last-movement time stay as they were; the call returns last_accepted
\* until the idle timeout has elapsed since the last movement, and from then
\* on it freezes with reason 'autosleep'.
C29_SpikeNeverReanchors ==
    (IsProcessCall /\ CallClear /\ CallHasLast /\ CallFar) =>
        /\ failsafe.last_xy = fcall.pre.last_xy
        /\ failsafe.last_move_time = fcall.pre.last_move_time
        /\ IF fcall.t - fcall.pre.last_move_time > autosleep_idle_s
           THEN /\ fcall.ret = None
                /\ is_frozen(failsafe)
                /\ reason(failsafe) = "autosleep"
           ELSE fcall.ret = fcall.pre.last_xy
\* A far candidate on a clear tick has met the idle freeze, the tick before
\* it having been a far candidate answered with last_accepted.
C29_Witness ==
    /\ IsProcessCall /\ CallClear /\ CallHasLast /\ CallFar
    /\ ~fcall.pre.frozen
    /\ fcall.pre.last_time > fcall.pre.last_move_time
    /\ fcall.ret = None /\ reason(failsafe) = "autosleep"

\* C24: a tick moves the cursor only when start_tracking() has been called
\* and neither trigger_panic() nor the end of a calibration session has
\* switched cursor control off since: before the first start, and after a
\* panic until the next start, the loop may run (for calibration sampling)
\* but the cursor stays where it is.
C24_CursorOffUntilStarted ==
    /\ (tcall.op = "tick" /\ tcall.moved) =>
          (Armed /\ app.enable_cursor /\ app.tracking_enabled)
    /\ tcall.op \in {"panic", "finished"} =>
          (~app.enable_cursor /\ ~app.tracking_enabled)
    /\ ~Armed => ~(app.enable_cursor /\ app.tracking_enabled)
\* After a panic the loop was enabled again by run_calibration() and a tick
\* got a position through the failsafe, yet the cursor was not moved.
C24_Witness ==
    /\ tcall.op = "tick" /\ tcall.ran /\ ~tcall.raised
    /\ ~Armed /\ app.tracking_enabled
    /\ fcall.op = "process" /\ fcall.t = now /\ fcall.ret # None
    /\ ~tcall.moved

\* C26: after a tick of the enabled loop on which there was no frame or no
\* feature, the FailsafeManager is frozen with reason 'no-features'.
C26_NoFeatureTickFreezes ==
    (tcall.op = "tick" /\ ~tcall.ran /\ app.tracking_enabled) =>
        (is_frozen(failsafe) /\ reason(failsafe) = "no-features")

\* C25: a calibrator that holds a model still holds one after reset() (the
\* call that begins a calibration session), after a sample is added and
\* after train(): the model is replaced, never discarded without a
\* successor.
C25_ModelNeverDiscarded ==
    (ccall.op \in {"reset", "add", "train"} /\ HasModel(ccall.pre)) =>
        (calib # None /\ HasModel(calib))

(***************************************************************************)
(* Smoother specification: one Smoother or one ButterworthLowPass at a     *)
(* time, fed with points of which a coordinate may be non-finite.          *)
(***************************************************************************)
\* The most calls made on a smoother between two resets.
MaxStageCalls == 3
StageKinds == {"Smoother", "ButterworthLowPass"}
StagePoints == {<<0, 0>>, <<4, 2>>, <<8, 5>>, <<NonFinite, 2>>}

StageConstruct(kind) ==
    /\ stages' = [kind |-> kind, state |-> None, calls |-> 0]
    /\ scall' = [op |-> "new"]
    /\ UNCHANGED <<failsafeVars, calibVars, appVars, driftVars, trendVars,
                   pipeVars, uiVars>>

\* One call of method m on the smoother with the point xy.
StageApply(m, xy) ==
    /\ stages # None
    /\ stages.calls < MaxStageCalls
    /\ stages.calls < MaxTickClock
    /\ IF stages.kind = "Smoother" THEN m = "apply"
       ELSE m \in {"apply", "apply_float"} /\ xy # None
    /\ LET r == IF stages.kind = "Smoother"
                THEN Smoother_apply(stages.state, xy)
                ELSE IF m = "apply" THEN LP_apply(stages.state, xy)
                ELSE LP_apply_float(stages.state, xy)
       IN  /\ stages' = [stages EXCEPT !.state = r.st, !.calls = @ + 1]
           /\ scall' = [op |-> "apply", method |-> m, xy |-> xy,
                        pre |-> stages.state, ret |-> r.ret]
    /\ UNCHANGED <<failsafeVars, calibVars, appVars, driftVars, trendVars,
                   pipeVars, uiVars>>

\* reset()
StageReset ==
    /\ stages # None
    /\ stages' = [stages EXCEPT !.state = None, !.calls = 0]
    /\ scall' = [op |-> "reset"]
    /\ UNCHANGED <<failsafeVars, calibVars, appVars, driftVars, trendVars,
                   pipeVars, uiVars>>

StageConstructAny == \E kind \in StageKinds : StageConstruct(kind)
StageApplyAny ==
    \E m \in {"apply", "apply_float"}, xy \in StagePoints \cup {None} :
        StageApply(m, xy)

NextStages == StageConstructAny \/ StageApplyAny \/ StageReset

SpecStages == Init /\ [][NextStages]_vars

(***************************************************************************)
(* Pipeline specification: the Pipeline of AppCore, started and stopped,   *)
(* run by the ticks of the loop and by the sample requests of a            *)
(* calibration session.  Each process() call takes one clock unit (the     *)
(* frame interval it paces itself to).                                     *)
(***************************************************************************)
\* The most samples the session adds to the Calibrator.
MaxPipeSamples == 2
\* What the parser returns: nothing, the two corners of the normalized
\* range, a point in between, and a feature with a non-finite nx.
PipeFeatures ==
    {None, <<0, 0>>, <<1, FeatMax>>, <<FeatMax, FeatMax>>, <<NonFinite, 1>>}

PipeConstruct ==
    /\ pipe = None
    /\ pipe' = Pipeline_New
    /\ rcall' = [op |-> "new"]
    /\ UNCHANGED <<failsafeVars, calibVars, appVars, driftVars, trendVars,
                   stageVars, uiVars>>

\* start() and stop()
PipeStart ==
    /\ pipe # None
    /\ ~pipe.running
    /\ pipe' = [pipe EXCEPT !.running = TRUE]
    /\ rcall' = [op |-> "start"]
    /\ UNCHANGED <<failsafeVars, calibVars, appVars, driftVars, trendVars,
                   stageVars, uiVars>>
PipeStop ==
    /\ pipe # None
    /\ pipe.running
    /\ pipe' = [pipe EXCEPT !.running = FALSE]
    /\ rcall' = [op |-> "stop"]
    /\ UNCHANGED <<failsafeVars, calibVars, appVars, driftVars, trendVars,
                   stageVars, uiVars>>

\* A tick of the loop: process().
PipeProcess(cam_ok, feats) ==
    /\ pipe # None
    /\ now < MaxClock
    /\ now' = now + 1
    /\ LET r == Pipeline_process(pipe, cam_ok, feats)
       IN  /\ pipe' = r.st
           /\ rcall' = [op |-> "process", cam_ok |-> cam_ok, feats |-> feats,
                        pre |-> pipe, raised |-> r.raised, res |-> r.res]
    /\ UNCHANGED <<failsafe, fcall, calibVars, appVars, driftVars, trendVars,
                   stageVars, uiVars>>

\* A sample request of the calibration session: _on_calib_sample(target).
PipeCalibSample(cam_ok, feats, target_xy) ==
    /\ pipe # None
    /\ now < MaxClock
    /\ Len(pipe.calib.samples) < MaxPipeSamples
    /\ now' = now + 1
    /\ LET r == on_calib_sample(pipe, cam_ok, feats, target_xy)
       IN  /\ pipe' = r.st
           /\ rcall' = [op |-> "sample", cam_ok |-> cam_ok, feats |-> feats,
                        pre |-> pipe, raised |-> r.raised, res |-> r.res]
    /\ UNCHANGED <<failsafe, fcall, calibVars, appVars, driftVars, trendVars,
                   stageVars, uiVars>>

PipeProcessAny ==
    \E cam_ok \in BOOLEAN, feats \in PipeFeatures : PipeProcess(cam_ok, feats)
PipeCalibSampleAny ==
    \E cam_ok \in BOOLEAN, feats \in PipeFeatures :
        PipeCalibSample(cam_ok, feats, <<ScreenW \div 2, ScreenH \div 2>>)

NextPipeline ==
    \/ PipeConstruct
    \/ PipeStart
    \/ PipeStop
    \/ PipeProcessAny
    \/ PipeCalibSampleAny

SpecPipeline == Init /\ [][NextPipeline]_vars

(***************************************************************************)
(* CalibrationUI: MonocularTracker/ui/calibration_ui.py.  A QTimer is      *)
(* whether it is active; `finishes` counts the calibrationFinished signals *)
(* the object has emitted.                                                 *)
(***************************************************************************)
\* margin_ratio = 0.08
margin_ratio == <<2, 25>>

\* CalibrationUI(points_count, samples_per_point)
UI_New(points_count, samples_per_point) ==
    [samples_per_point |-> Max(1, samples_per_point),
     requested_points |-> IF points_count = 0 THEN 5 ELSE points_count,
     targets |-> <<>>, active_index |-> -1, samples_emitted |-> 0,
     point_timer |-> FALSE, sample_timer |-> FALSE, visible |-> FALSE,
     finishes |-> 0]

\* _compute_targets() on a screen of the given size
UI_compute_targets(self, size) ==
    LET sw == size[1]
        sh == size[2]
        mx == (sw * margin_ratio[1]) \div margin_ratio[2]
        my == (sh * margin_ratio[1]) \div margin_ratio[2]
        tl == <<mx, my>>
        tr == <<sw - mx, my>>
        bl == <<mx, sh - my>>
        br == <<sw - mx, sh - my>>
        pts == << <<sw \div 2, sh \div 2>>, tl, tr, bl, br >>
        more == << <<(tl[1] + tr[1]) \div 2, my>>,
                   <<(bl[1] + br[1]) \div 2, sh - my>>,
                   <<mx, (tl[2] + bl[2]) \div 2>>,
                   <<sw - mx, (tr[2] + br[2]) \div 2>> >>
    IN  [self EXCEPT !.targets = IF self.requested_points = 9
                                 THEN pts \o more ELSE pts]

\* _finish_all(): emits calibrationFinished and closes the window.
UI_finish_all(self) ==
    [self EXCEPT !.finishes = @ + 1, !.visible = FALSE]

\* _begin_point(): a new sample timer and a new single-shot point timer.
UI_begin_point(self) ==
    IF self.active_index < 0 \/ self.active_index >= Len(self.targets)
    THEN UI_finish_all(self)
    ELSE [self EXCEPT !.samples_emitted = 0, !.sample_timer = TRUE,
                      !.point_timer = TRUE]

\* start()
UI_start(self, size) ==
    UI_begin_point([UI_compute_targets(self, size) EXCEPT
                       !.active_index = 0, !.samples_emitted = 0,
                       !.visible = TRUE])

\* `self._samples_emitted >= self.samples_per_point`
SampleCapMutant(self) == FALSE
SampleCap(self) == self.samples_emitted >= self.samples_per_point

\* _on_sample_tick(): the new object and the target sampleRequested was
\* emitted with, None when it was not emitted.
UI_on_sample_tick(self) ==
    IF self.active_index < 0 \/ self.active_index >= Len(self.targets)
    THEN [st |-> self, emit |-> None]
    ELSE LET s1 == [self EXCEPT !.samples_emitted = @ + 1]
         IN  [st   |-> IF SampleCap(s1) THEN [s1 EXCEPT !.sample_timer = FALSE]
                       ELSE s1,
              emit |-> self.targets[self.active_index + 1]]

\* _on_point_done(), the slot of the single-shot point timer
UI_on_point_done(self) ==
    LET s1 == [self EXCEPT !.sample_timer = FALSE, !.point_timer = FALSE,
                           !.active_index = @ + 1]
    IN  IF s1.active_index >= Len(s1.targets) THEN UI_finish_all(s1)
        ELSE UI_begin_point(s1)

(***************************************************************************)
(* The calibration session of AppCore: MonocularTracker/core/app.py.       *)
(* `widgets` holds every CalibrationUI the application has created, in the  *)
(* order of creation, None once the object is deleted; `calibration_ui`    *)
(* is the index of the one self._calibration_ui refers to, 0 for None;     *)
(* `plots` is the number of CalibrationPlotsWindow objects open.  Of the   *)
(* Calibrator the session keeps what its handlers decide on: `samples`,    *)
(* the number of samples it holds (the length of                           *)
(* _calibration_samples_true as well), and `is_trained`.                   *)
(***************************************************************************)
\* samples_per_point of the sessions AppCore starts.
SamplesPerPoint == 2

AppCore_New ==
    [tracking |-> FALSE, running |-> FALSE, calibrating |-> FALSE,
     samples |-> 0, is_trained |-> FALSE, calibration_ui |-> 0,
     widgets |-> <<>>, plots |-> 0]

\* `self._calibration_ui = CalibrationUI(...)` rebinds the only reference
\* to the CalibrationUI created before (the slots connected to its signals
\* and timers are bound methods, to which the binding holds no strong
\* reference): the object is deallocated, and with it the widget and its
\* two timers.
ReleaseMutant(widgets, i) == widgets
Release(widgets, i) ==
    IF i = 0 THEN widgets ELSE [widgets EXCEPT ![i] = None]

\* start_calibration(points); cam_ok is whether pipeline.start() succeeds.
AppCore_start_calibration(self, points, cam_ok, size) ==
    LET s1 == [self EXCEPT !.tracking = FALSE]
    IN  IF ~s1.running /\ ~cam_ok THEN s1
        ELSE LET w  == UI_start(UI_New(points, SamplesPerPoint), size)
                 ws == Append(Release(s1.widgets, s1.calibration_ui), w)
             IN  [s1 EXCEPT
                    !.running = TRUE, !.calibrating = TRUE,
                    !.samples = 0, !.is_trained = FALSE,
                    !.widgets = ws, !.calibration_ui = Len(ws)]

\* _on_calib_sample(target_xy); feats is the features of the FrameResult
\* that pipeline.process() returns.
AppCore_on_calib_sample(self, feats, target_xy) ==
    IF feats = None THEN self
    ELSE [self EXCEPT !.samples = @ + 1]

\* _on_calib_finished(): train, (save), show the plots window, end
\* calibration mode.
AppCore_on_calib_finished(self) ==
    [self EXCEPT
       !.is_trained = (self.samples > 0) \/ @,
       !.plots = @ + 1, !.calibrating = FALSE]

\* _on_calib_retry(wnd)
AppCore_on_calib_retry(self, cam_ok, size) ==
    LET s1 == [self EXCEPT !.plots = @ - 1]
    IN  IF s1.calibration_ui # 0
        THEN AppCore_start_calibration(
                 s1, s1.widgets[s1.calibration_ui].requested_points, cam_ok,
                 size)
        ELSE s1

\* _on_calib_accept(wnd)
AppCore_on_calib_accept(self) == [self EXCEPT !.plots = @ - 1]

(***************************************************************************)
(* Calibration UI specification: AppCore with the calibrate buttons, the   *)
(* timers of every CalibrationUI that exists, and the buttons of the plots *)
(* windows, in every order.                                                *)
(***************************************************************************)
\* The most CalibrationUI objects the application creates.
MaxStarts == 3

UiConstruct ==
    /\ ui = None
    /\ ui' = AppCore_New
    /\ ucall' = [op |-> "new"]
    /\ UNCHANGED <<failsafeVars, calibVars, appVars, driftVars, trendVars,
                   stageVars, pipeVars>>

\* Whether CalibrationUI number i exists and one of its timers is active.
Running(a, i) ==
    /\ i \in 1 .. Len(a.widgets)
    /\ a.widgets[i] # None
    /\ a.widgets[i].sample_timer \/ a.widgets[i].point_timer

\* calibrate5Requested / calibrate9Requested
UiStartCalibration(points, cam_ok) ==
    /\ ui # None
    /\ Len(ui.widgets) < MaxStarts
    /\ ui' = AppCore_start_calibration(ui, points, cam_ok, screen_size)
    /\ ucall' = [op |-> "start_calibration",
                 interrupted |-> /\ Running(ui, ui.calibration_ui)
                                 /\ ui.samples > 0
                                 /\ Len(ui'.widgets) > Len(ui.widgets)]
    /\ UNCHANGED <<failsafeVars, calibVars, appVars, driftVars, trendVars,
                   stageVars, pipeVars>>

\* The sample timer of CalibrationUI number i fires; sampleRequested is
\* connected to _on_calib_sample.
UiSampleTick(i, feats) ==
    /\ ui # None
    /\ i \in 1 .. Len(ui.widgets)
    /\ ui.widgets[i] # None
    /\ ui.widgets[i].sample_timer
    /\ LET r  == UI_on_sample_tick(ui.widgets[i])
           a1 == [ui EXCEPT !.widgets[i] = r.st]
       IN  /\ ui' = IF r.emit = None THEN a1
                    ELSE AppCore_on_calib_sample(a1, feats, r.emit)
           /\ ucall' = [op |-> "sample_tick", sid |-> i,
                        current |-> ui.calibration_ui,
                        pre |-> ui.widgets[i], target |-> r.emit]
    /\ UNCHANGED <<failsafeVars, calibVars, appVars, driftVars, trendVars,
                   stageVars, pipeVars>>

\* The point timer of CalibrationUI number i fires; calibrationFinished is
\* connected to _on_calib_finished.
UiPointDone(i) ==
    /\ ui # None
    /\ i \in 1 .. Len(ui.widgets)
    /\ ui.widgets[i] # None
    /\ ui.widgets[i].point_timer
    /\ LET w  == UI_on_point_done(ui.widgets[i])
           a1 == [ui EXCEPT !.widgets[i] = w]
           finished == w.finishes > ui.widgets[i].finishes
       IN  /\ ui' = IF finished THEN AppCore_on_calib_finished(a1) ELSE a1
           /\ ucall' = [op |-> "point_done", sid |-> i,
                        current |-> ui.calibration_ui,
                        pre |-> ui.widgets[i], finished |-> finished]
    /\ UNCHANGED <<failsafeVars, calibVars, appVars, driftVars, trendVars,
                   stageVars, pipeVars>>

\* The retry button of a plots window.
UiRetry(cam_ok) ==
    /\ ui # None
    /\ ui.plots > 0
    /\ Len(ui.widgets) < MaxStarts
    /\ ui' = AppCore_on_calib_retry(ui, cam_ok, screen_size)
    /\ ucall' = [op |-> "retry"]
    /\ UNCHANGED <<failsafeVars, calibVars, appVars, driftVars, trendVars,
                   stageVars, pipeVars>>

\* The accept button of a plots window.
UiAccept ==
    /\ ui # None
    /\ ui.plots > 0
    /\ ui' = AppCore_on_calib_accept(ui)
    /\ ucall' = [op |-> "accept"]
    /\ UNCHANGED <<failsafeVars, calibVars, appVars, driftVars, trendVars,
                   stageVars, pipeVars>>

\* The features pipeline.process() finds in the frame of a sample request.
UiFeatures == {None, <<1, 1>>}

UiStartCalibrationAny ==
    \E points \in {5, 9}, cam_ok \in BOOLEAN : UiStartCalibration(points, cam_ok)
UiSampleTickAny ==
    \E i \in 1 .. MaxStarts, feats \in UiFeatures : UiSampleTick(i, feats)
UiPointDoneAny == \E i \in 1 .. MaxStarts : UiPointDone(i)
UiRetryAny == \E cam_ok \in BOOLEAN : UiRetry(cam_ok)

NextCalibUI ==
    \/ UiConstruct
    \/ UiStartCalibrationAny
    \/ UiSampleTickAny
    \/ UiPointDoneAny
    \/ UiRetryAny
    \/ UiAccept

SpecCalibUI == Init /\ [][NextCalibUI]_vars

(***************************************************************************)
(* Properties of TrendPredictor.update, stated on the record of the last   *)
(* call and the window after it (trend.hist).                              *)
(***************************************************************************)
\* The window holds at least four points and all its successive
\* differences are the same vector.
TrendConstantVelocity ==
    /\ Len(trend.hist) >= 4
    /\ \A i \in 2 .. Len(trend.hist) :
          /\ trend.hist[i][1] - trend.hist[i - 1][1]
                = trend.hist[2][1] - trend.hist[1][1]
          /\ trend.hist[i][2] - trend.hist[i - 1][2]
                = trend.hist[2][2] - trend.hist[1][2]
\* Twice the sum over the window of |dx| + |dy|, and (len - 1) times four
\* times the threshold: the jitter metric is below the threshold iff the
\* first is below the second.
TrendJitterTimes ==
    2 * (SumAbsDiff(trend.hist, 1) + SumAbsDiff(trend.hist, 2))
TrendThresholdTimes ==
    (Len(trend.hist) - 1) * (IF trend.cls = "MT" THEN 6 ELSE 8)

C22_NonFiniteInputIsHeld ==
    scall.op = "apply" =>
        /\ (scall.xy # None /\ ~IsFinitePoint(scall.xy)) =>
              stages.state = scall.pre
        /\ ~scall.ret.raised
        /\ scall.ret.val # None => IsFinitePoint(scall.ret.val)

\* C21: a process() call that gets no feature, or a feature with a
\* non-finite coordinate, reports face_ok = False and no predicted point,
\* and leaves the low-pass filter and the Calibrator's samples as they
\* were, also when the call is made for a calibration sample.
C21_NoFeatureShortCircuits ==
    (/\ rcall.op \in {"process", "sample"}
     /\ rcall.feats = None \/ ~IsFinitePoint(rcall.feats)) =>
        /\ ~rcall.raised
        /\ ~rcall.res.face_ok
        /\ rcall.res.predicted_xy = None
        /\ pipe.norm_lp = rcall.pre.norm_lp
        /\ pipe.calib.samples = rcall.pre.calib.samples

(***************************************************************************)
(* Properties of the calibration sessions, stated on the CalibrationUI     *)
(* objects that exist and on the record of the last timer event.           *)
(***************************************************************************)
\* The CalibrationUI objects that exist.
Widgets == {i \in 1 .. Len(ui.widgets) : ui.widgets[i] # None}
\* Those of them with an active timer.
RunningWidgets == {i \in Widgets : Running(ui, i)}

\* C27: a CalibrationUI goes through its targets in list order, one index
\* per end of dwell; sampleRequested is emitted with the target of the
\* active index, at most samples_per_point times per target and not after
\* calibrationFinished; calibrationFinished is emitted once, when the dwell
\* of the last target ends, and no timer is active after it.
C27_SessionRunsTargetsInOrder ==
    ui # None =>
        /\ \A i \in Widgets :
              LET w == ui.widgets[i]
              IN  /\ w.samples_emitted <= w.samples_per_point
                  /\ w.finishes <= 1
                  /\ (w.finishes = 1) <=> (w.active_index >= Len(w.targets))
                  /\ w.finishes = 1 => (~w.sample_timer /\ ~w.point_timer)
        /\ ucall.op = "sample_tick" =>
              /\ ucall.pre.finishes = 0
              /\ ucall.target # None
              /\ ucall.target = ucall.pre.targets[ucall.pre.active_index + 1]
        /\ ucall.op = "point_done" =>
              /\ ui.widgets[ucall.sid].active_index
                    = ucall.pre.active_index + 1
              /\ ucall.finished
                    <=> ucall.pre.active_index + 1 = Len(ucall.pre.targets)
\* The dwell of the last of nine targets has ended with the target sampled
\* samples_per_point times, and calibrationFinished was emitted.
C27_Witness ==
    /\ ui # None
    /\ ucall.op = "point_done" /\ ucall.finished
    /\ Len(ucall.pre.targets) = 9
    /\ ucall.pre.samples_emitted = ucall.pre.samples_per_point
    /\ ~ucall.pre.sample_timer

\* C30: at most one CalibrationUI has an active timer, and it is the one
\* self._calibration_ui refers to: every sample request that reaches the
\* Calibrator and every calibrationFinished that trains it and ends
\* calibration mode comes from that one, and when it finishes no other
\* session is running.
C30_OneSessionAtATime ==
    ui # None =>
        /\ Cardinality(RunningWidgets) <= 1
        /\ RunningWidgets \subseteq {ui.calibration_ui}
        /\ ucall.op = "sample_tick" => ucall.sid = ucall.current
        /\ (ucall.op = "point_done" /\ ucall.finished) =>
              (ucall.sid = ucall.current /\ RunningWidgets = {})
\* start_calibration has just run while a session was collecting and had
\* put samples in the Calibrator; the new session is running.
C30_Witness ==
    /\ ui # None
    /\ ucall.op = "start_calibration"
    /\ ucall.interrupted
    /\ ui.calibration_ui > 1
    /\ Running(ui, ui.calibration_ui)

=============================================================================
